---- MODULE Spec2Model ----
(***************************************************************************)
(* Verification model of the MQTT-to-relational ingestion engine           *)
(* (naman113/AVD_v1): pattern matcher, table manager, router, consecutive  *)
(* and interval difference engines, device mapper.                         *)
(*                                                                         *)
(* Conventions.  A Python str is a sequence of one-character strings       *)
(* ("120030" is <<"1","2","0","0","3","0">>), so that parsing, formatting, *)
(* prefix tests and concatenation are computed, not assumed.  A Python     *)
(* value is a record [ty, v]; a dict is a function from its keys.  Floats  *)
(* are modelled by the integers they hold in the bounded inputs.  An       *)
(* Optional is a sequence of length 0 (None) or 1.                         *)
(***************************************************************************)
EXTENDS Integers, Sequences, FiniteSets, TLC

VARIABLES
    now,            \* wall clock read by datetime.now()
    cfg_frequency_minutes, \* the route's interval_difference.frequency_minutes
    interval_data,  \* IntervalDifferenceCalculator._interval_data
    iv_calls,       \* number of process_reading calls made so far
    iv_last,        \* observation of the last process_reading call
    iv_obs,         \* per key: what an observer of the inputs has seen
    iv_scen,        \* progress along the four-sample scenario (F = 5)
    m_patterns,     \* PatternMatcher.patterns
    m_payload,      \* the payload handed to PatternMatcher.match
    m_result,       \* Optional: what match returned for m_payload
    mapper_table,   \* the committed rows of device_mapper, by (topic, device_id)
    dm_lock,        \* DeviceMapper._lock: 0 when free, else the holding thread
    dm_pc,          \* per worker thread: its position in register_device
    dm_args,        \* per worker thread: the arguments of its call
    dm_existing,    \* per worker thread: the row its SELECT returned (Optional)
    dm_calls,       \* number of register_device calls started
    dm_ok,          \* per key: the successful calls, in commit order
    db_schema,      \* the database: table name -> column name -> column type
    table_cache,    \* TableManager.table_cache
    tm_calls,       \* number of get_or_create_table_name calls made so far
    tm_last,        \* observation of the last get_or_create_table_name call
    tm_prev,        \* observation of the call before it
    r_config,       \* the router's construction: device mapper or none, routes, SQLAlchemy
    meta_tables,    \* DB.meta.tables: table name -> the column names of its Table object
    db_tables,      \* the keys of DB._tables
    r_tables,       \* Router._tables
    last_readings,  \* Router._last_readings
    db_rows,        \* rows inserted so far, per table
    r_calls,        \* number of route calls made so far
    r_last,         \* observation of the last route call
    r_seen,         \* per (topic, device_id): observation of its consecutive substream
    fn_call,        \* the last call of a function without state: name, arguments, result
    hub_clients,    \* MQTTHub._clients: key -> SingleClient
    hub_calls,      \* number of add_sub calls made so far
    hub_seen,       \* the keys of the add_sub calls made so far
    hub_last,       \* observation of the last operation on the hub
    sc_client,      \* a SingleClient: its handlers and whether it was started
    sc_connected,   \* whether the client's session with the broker is established
    sc_broker,      \* the subscriptions of that session at the broker: filter -> qos
    sc_pending,     \* Optional: the matches _on_message collected and has not submitted yet
    sc_adds,        \* number of add_sub calls made on the client
    sc_last,         \* observation of the last event of the network loop
    cl_file,        \* the configuration file: its content and modification time, or missing
    cl_data,        \* ConfigLoader._data
    cl_mtime,       \* ConfigLoader._mtime
    cl_writes,      \* number of times the file was written so far
    cl_last,         \* observation of the last iteration of ConfigLoader._watch
    wk_last,        \* Router._last_readings of one key: Optional, the cached P0
    wk_pc,          \* per worker thread: its position in _calculate_differences
    wk_local,       \* per worker thread: the P0 of its sample and the cached value it read
    wk_taken,       \* number of samples of the key handed to the workers so far
    wk_rows,        \* the consecutive-diff rows returned so far
    wk_overlap,      \* whether two workers were ever inside _calculate_differences together
    dd_pc,          \* where each worker thread is in Router._ensure and DB.ensure_columns
    dd_cols,        \* the columns each thread's row needs
    dd_seen,        \* existing_cols as each thread read them
    dd_lock,        \* the holder of DB._lock (0: free)
    dd_tables,      \* whether DB._tables holds the table
    dd_rtables,     \* whether Router._tables holds the table
    dd_schema,      \* the columns of the table in the database (Optional)
    dd_ddl,         \* the DDL statements issued
    dd_raised,      \* the threads whose call raised
    dd_calls,        \* calls started
    md_rule,         \* the rule of the last route call of the pattern-selection runs
    pl_client,      \* MQTTHub._clients: 0 when empty, else the generation of its SingleClient
    pl_pool,        \* per generation: the network loop and the executor of that SingleClient
    pl_stop,        \* the thread in stop_all: running, draining or returned
    pl_msgs,        \* number of messages the broker delivered
    pl_reloads,     \* number of add_sub calls of the configuration watcher
    pl_last,         \* the last message delivered and what was submitted for it
    rl_file,        \* the configuration file: its text and modification time
    rl_loader,      \* ConfigLoader._data and ConfigLoader._mtime
    rl_pc,          \* the watcher thread's position in _watch and load
    rl_local,       \* the watcher's locals: the text it read
    rl_notified,    \* the snapshot the subscribers were last given
    rl_writes       \* number of times the file was written

ivVars == <<now, cfg_frequency_minutes, interval_data, iv_calls, iv_last, iv_obs, iv_scen>>

matchVars == <<m_patterns, m_payload, m_result>>

dmVars == <<mapper_table, dm_lock, dm_pc, dm_args, dm_existing, dm_calls, dm_ok>>

tmVars == <<db_schema, table_cache, tm_calls, tm_last, tm_prev>>

routerVars ==
    <<r_config, meta_tables, db_tables, r_tables, last_readings, db_rows, r_calls, r_last, r_seen>>

fnVars == <<fn_call>>

hubVars == <<hub_clients, hub_calls, hub_seen, hub_last>>

scVars == <<sc_client, sc_connected, sc_broker, sc_pending, sc_adds, sc_last>>

loaderVars == <<cl_file, cl_data, cl_mtime, cl_writes, cl_last>>

workerVars == <<wk_last, wk_pc, wk_local, wk_taken, wk_rows, wk_overlap>>

ddlVars == <<dd_pc, dd_cols, dd_seen, dd_lock, dd_tables, dd_rtables, dd_schema, dd_ddl, dd_raised, dd_calls>>

modeVars == <<md_rule>>

poolVars == <<pl_client, pl_pool, pl_stop, pl_msgs, pl_reloads, pl_last>>

reloadVars == <<rl_file, rl_loader, rl_pc, rl_local, rl_notified, rl_writes>>

vars == <<ivVars, matchVars, dmVars, tmVars, routerVars, fnVars, hubVars, scVars, loaderVars, workerVars, ddlVars, modeVars, poolVars, reloadVars>>

----------------------------------------------------------------------------
(* Python strings and values                                               *)

Digits == <<"0", "1", "2", "3", "4", "5", "6", "7", "8", "9">>

IsDigit(c) == \E i \in 1..10 : Digits[i] = c

DigitVal(c) == (CHOOSE i \in 1..10 : Digits[i] = c) - 1

\* str.isdigit(): non-empty and every character a digit
isdigit(s) == Len(s) > 0 /\ \A i \in 1..Len(s) : IsDigit(s[i])

RECURSIVE DigitsToNat(_)
DigitsToNat(s) ==
    IF Len(s) = 0 THEN 0
    ELSE 10 * DigitsToNat(SubSeq(s, 1, Len(s) - 1)) + DigitVal(s[Len(s)])

RECURSIVE NatToStr(_)
NatToStr(n) ==
    IF n < 10 THEN <<Digits[n + 1]>>
    ELSE NatToStr(n \div 10) \o <<Digits[(n % 10) + 1]>>

\* str(int)
IntToStr(n) == IF n < 0 THEN <<"-">> \o NatToStr(0 - n) ELSE NatToStr(n)

\* '%02d' as produced by strftime for %H, %M and %S
TwoDigits(n) == <<Digits[(n \div 10) + 1], Digits[(n % 10) + 1]>>

RECURSIVE lstrip(_)
lstrip(s) == IF Len(s) > 0 /\ s[1] = " " THEN lstrip(Tail(s)) ELSE s

RECURSIVE rstrip(_)
rstrip(s) ==
    IF Len(s) > 0 /\ s[Len(s)] = " " THEN rstrip(SubSeq(s, 1, Len(s) - 1)) ELSE s

strip(s) == rstrip(lstrip(s))

None == [ty |-> "none", v |-> 0]
IntV(n) == [ty |-> "int", v |-> n]
FloatV(n) == [ty |-> "float", v |-> n]
BoolV(b) == [ty |-> "bool", v |-> IF b THEN 1 ELSE 0]
StrV(s) == [ty |-> "str", v |-> s]
ListV(l) == [ty |-> "list", v |-> l]
DictV(d) == [ty |-> "dict", v |-> d]

\* dict.get(key): the value, or None
Get(row, f) == IF f \in DOMAIN row THEN row[f] ELSE None

\* Python truthiness of a value
Truthy(x) ==
    CASE x.ty = "none" -> FALSE
      [] x.ty \in {"int", "float", "bool"} -> x.v # 0
      [] x.ty \in {"str", "list"} -> Len(x.v) > 0
      [] OTHER -> DOMAIN x.v # {}

\* str(value); the elements of a list are shown by repr, a str in quotes.
\* No dict but the empty one is converted in the model.
RECURSIVE PyStr(_)
PyRepr(x) == IF x.ty = "str" THEN <<"'">> \o x.v \o <<"'">> ELSE PyStr(x)

RECURSIVE JoinRepr(_)
JoinRepr(l) ==
    IF Len(l) = 0 THEN <<>>
    ELSE IF Len(l) = 1 THEN PyRepr(l[1])
    ELSE PyRepr(l[1]) \o <<",", " ">> \o JoinRepr(Tail(l))

PyStr(x) ==
    CASE x.ty = "str" -> x.v
      [] x.ty = "int" -> IntToStr(x.v)
      [] x.ty = "float" -> IntToStr(x.v) \o <<".", "0">>
      [] x.ty = "bool" -> IF x.v = 1 THEN <<"T", "r", "u", "e">>
                          ELSE <<"F", "a", "l", "s", "e">>
      [] x.ty = "none" -> <<"N", "o", "n", "e">>
      [] x.ty = "list" -> <<"[">> \o JoinRepr(x.v) \o <<"]">>
      [] OTHER -> <<"{", "}">>

\* float(s) for the numerals of the model: an optional sign and digits.
\* The result is an Optional: <<>> when float() raises ValueError.
ParseFloat(s) ==
    IF Len(s) > 1 /\ s[1] \in {"-", "+"} /\ isdigit(Tail(s))
    THEN <<(IF s[1] = "-" THEN 0 - 1 ELSE 1) * DigitsToNat(Tail(s))>>
    ELSE IF isdigit(s) THEN <<DigitsToNat(s)>> ELSE <<>>

\* Router._try_convert_to_numeric and its copy in the interval calculator:
\* Optional[float]
try_convert_to_numeric(x) ==
    CASE x.ty \in {"int", "float", "bool"} -> <<x.v>>
      [] x.ty = "str" -> IF Len(strip(x.v)) > 0 THEN ParseFloat(strip(x.v)) ELSE <<>>
      [] OTHER -> <<>>

\* the fields both difference engines treat as metadata
MetaFields == {"topic", "DeviceID", "Date", "Time", "ts", "ingested_at"}

----------------------------------------------------------------------------
(* IntervalDifferenceCalculator                                            *)

\* datetime.replace(hour, minute, second) raises ValueError out of range
ValidHMS(h, m, s) == h <= 23 /\ m <= 59 /\ s <= 59

\* the first of ts, Time, timestamp, Date that is a six-digit HHMMSS string
\* naming a valid time of day gives the time, on the wall clock's date;
\* otherwise the wall clock.
RECURSIVE extract_timestamp_from(_, _, _)
extract_timestamp_from(fields, row, clock) ==
    IF Len(fields) = 0 THEN clock
    ELSE LET field == Head(fields)
             str == PyStr(Get(row, field))
             h == DigitsToNat(SubSeq(str, 1, 2))
             m == DigitsToNat(SubSeq(str, 3, 4))
             s == DigitsToNat(SubSeq(str, 5, 6))
         IN  IF /\ field \in DOMAIN row
                /\ Truthy(row[field])
                /\ Len(str) = 6
                /\ isdigit(str)
                /\ ValidHMS(h, m, s)
             THEN [day |-> clock.day, h |-> h, m |-> m, s |-> s]
             ELSE extract_timestamp_from(Tail(fields), row, clock)

extract_timestamp(row, clock) ==
    extract_timestamp_from(<<"ts", "Time", "timestamp", "Date">>, row, clock)

\* strftime("%Y-%m-%d") of a day of the model's calendar (days of January 2024)
DateStr(day) == <<"2", "0", "2", "4", "-", "0", "1", "-">> \o TwoDigits(day + 1)

\* strftime("%Y-%m-%dT%H:%M") of the floor-aligned start of the interval
calculate_interval_boundary(timestamp, frequency_minutes) ==
    LET total_minutes == timestamp.h * 60 + timestamp.m
        interval_start_minutes ==
            (total_minutes \div frequency_minutes) * frequency_minutes
        hours == interval_start_minutes \div 60
        minutes == interval_start_minutes % 60
    IN  DateStr(timestamp.day) \o <<"T">> \o TwoDigits(hours) \o <<":">> \o TwoDigits(minutes)

\* strftime('%H%M%S')
HHMMSS(t) == TwoDigits(t.h) \o TwoDigits(t.m) \o TwoDigits(t.s)

\* the row's non-metadata fields that convert to a number
extract_numeric_fields(row) ==
    LET keep == {k \in DOMAIN row :
                    k \notin MetaFields /\ Len(try_convert_to_numeric(row[k])) = 1}
    IN  [k \in keep |-> try_convert_to_numeric(row[k])[1]]

\* line 203 with the operands exchanged
interval_field_difference_swapped(current_value, previous_value) ==
    previous_value - current_value

\* difference = current_value - previous_interval_reading[field]
interval_field_difference(current_value, previous_value) ==
    current_value - previous_value

\* interval_info is the key's state as it is when the row is built,
\* i.e. before the rollover
calculate_interval_difference(topic, device_id, current_row, current_interval_reading, previous_interval_reading, interval_boundary, interval_info) ==
    LET head ==
            [topic |-> StrV(topic),
             DeviceID |-> StrV(device_id),
             Date |-> Get(current_row, "Date"),
             Time |-> Get(current_row, "Time"),
             ts |-> Get(current_row, "ts"),
             interval_boundary |-> StrV(interval_boundary),
             start_P0_value |->
                 FloatV(IF "P0" \in DOMAIN previous_interval_reading
                        THEN previous_interval_reading["P0"] ELSE 0),
             start_P0_time |->
                 StrV(IF Len(interval_info.previous_timestamp) = 1
                      THEN HHMMSS(interval_info.previous_timestamp[1]) ELSE <<>>),
             end_P0_value |->
                 FloatV(IF "P0" \in DOMAIN current_interval_reading
                        THEN current_interval_reading["P0"] ELSE 0),
             end_P0_time |-> StrV(HHMMSS(interval_info.last_timestamp))]
        both == DOMAIN current_interval_reading \cap DOMAIN previous_interval_reading
        diffs == [f \in both |->
                    FloatV(interval_field_difference(current_interval_reading[f],
                                                     previous_interval_reading[f]))]
    IN  diffs @@ head

\* the key of the interval the triggering sample opens
emitted_interval_boundary_new(interval_info, current_interval) ==
    current_interval

\* the interval_boundary argument of line 73: the key's current_interval as
\* stored, read before line 79 replaces it
emitted_interval_boundary(interval_info, current_interval) ==
    interval_info.current_interval

\* cache_key = f"{topic}:{device_id}", of both difference engines
key_of(topic, device_id) == topic \o <<":">> \o device_id

\* a same-interval sample that leaves the interval state as it is
same_interval_first_wins(interval_info, numeric_data, timestamp) == interval_info

\* lines 59-64: still in the same interval, keep the latest reading of it
same_interval(interval_info, numeric_data, timestamp) ==
    [interval_info EXCEPT !.current_reading = numeric_data,
                          !.last_timestamp = timestamp]

\* process_reading: [ret: Optional row, data: the new _interval_data]
process_reading(data, topic, device_id, current_row, frequency_minutes, clock) ==
    LET cache_key == key_of(topic, device_id)
        timestamp == extract_timestamp(current_row, clock)
        current_interval == calculate_interval_boundary(timestamp, frequency_minutes)
        numeric_data == extract_numeric_fields(current_row)
        started == [current_interval |-> current_interval,
                    current_reading |-> numeric_data,
                    previous_interval_reading |-> <<>>,
                    frequency_minutes |-> frequency_minutes,
                    last_timestamp |-> timestamp,
                    previous_timestamp |-> <<>>]
    IN  IF DOMAIN numeric_data = {} THEN [ret |-> <<>>, data |-> data]
        ELSE IF cache_key \notin DOMAIN data
        THEN [ret |-> <<>>, data |-> (cache_key :> started) @@ data]
        ELSE LET interval_info == data[cache_key]
                 rolled == [interval_info EXCEPT
                     !.previous_interval_reading = <<interval_info.current_reading>>,
                     !.previous_timestamp = <<interval_info.last_timestamp>>,
                     !.current_interval = current_interval,
                     !.current_reading = numeric_data,
                     !.last_timestamp = timestamp]
             IN  IF interval_info.current_interval = current_interval
                 THEN [ret |-> <<>>,
                       data |-> [data EXCEPT ![cache_key] =
                                    same_interval(interval_info, numeric_data, timestamp)]]
                 ELSE IF Len(interval_info.previous_interval_reading) = 1
                 THEN [ret |-> <<calculate_interval_difference(
                                    topic, device_id, current_row,
                                    interval_info.current_reading,
                                    interval_info.previous_interval_reading[1],
                                    emitted_interval_boundary(interval_info, current_interval),
                                    interval_info)>>,
                       data |-> [data EXCEPT ![cache_key] = rolled]]
                 ELSE [ret |-> <<>>, data |-> [data EXCEPT ![cache_key] = rolled]]

----------------------------------------------------------------------------
(* PatternMatcher                                                          *)

\* isinstance(x, dict)
IsDict(x) == x.ty = "dict"

\* set(payload.keys())
KeysOf(x) == DOMAIN x.v

\* set(p.get('match', {}).get('keys', []))
pattern_req(p) ==
    IF "match" \in DOMAIN p /\ "keys" \in DOMAIN p.match
    THEN {p.match.keys[i] : i \in 1..Len(p.match.keys)}
    ELSE {}

\* p.get('match', {}).get('schema') is truthy
pattern_has_schema(p) ==
    "match" \in DOMAIN p /\ "schema" \in DOMAIN p.match /\ p.match.schema # ""

\* exactness_score = 1000 if len(req) == len(keys) else len(req)
ExactScore == 1000
exactness_score(req, keys) ==
    IF Cardinality(req) = Cardinality(keys) THEN ExactScore ELSE Cardinality(req)

\* a candidate also replaces an equally scored best
replaces_best_or_equal(cand_score, best) ==
    Len(best) = 0 \/ cand_score >= best[1].score

\* best is None or cand[0] > best[0]
replaces_best(cand_score, best) ==
    Len(best) = 0 \/ cand_score > best[1].score

\* the for loop over self.patterns, carrying best: Optional (score, pattern)
RECURSIVE best_match(_, _, _)
best_match(patterns, keys, best) ==
    IF Len(patterns) = 0 THEN best
    ELSE LET p == Head(patterns)
             req == pattern_req(p)
             score == exactness_score(req, keys)
         IN  IF req # {} /\ req \subseteq keys /\ replaces_best(score, best)
             THEN best_match(Tail(patterns), keys, <<[score |-> score, p |-> p]>>)
             ELSE best_match(Tail(patterns), keys, best)

\* the schema fallback loop: the first pattern with a schema marker
RECURSIVE first_schema(_)
first_schema(patterns) ==
    IF Len(patterns) = 0 THEN <<>>
    ELSE IF pattern_has_schema(Head(patterns)) THEN <<Head(patterns)>>
    ELSE first_schema(Tail(patterns))

\* match: Optional pattern (the returned name is the pattern's name)
match(patterns, payload) ==
    LET top == IF IsDict(payload) THEN best_match(patterns, KeysOf(payload), <<>>)
               ELSE <<>>
        has_d_dict == IsDict(payload) /\ "d" \in KeysOf(payload) /\ IsDict(payload.v["d"])
        nested == IF has_d_dict THEN best_match(patterns, KeysOf(payload.v["d"]), <<>>)
                  ELSE <<>>
    IN  IF Len(top) = 1 THEN <<top[1].p>>
        ELSE IF Len(nested) = 1 THEN <<nested[1].p>>
        ELSE IF IsDict(payload) /\ "d" \in KeysOf(payload) /\ "ts" \in KeysOf(payload)
        THEN first_schema(patterns)
        ELSE <<>>

----------------------------------------------------------------------------
(* DeviceMapper                                                            *)

\* the lock is taken without regard to its holder
lock_ignored(t) == TRUE

\* with self._lock: an RLock is free, or re-entered by its holder
lock_available(t) == dm_lock \in {0, t}

\* the values of the UPDATE (row found) or of the INSERT (no row)
registered_row(existing, args) ==
    IF Len(existing) = 1
    THEN [table_name |-> args.table_name,
          pattern_name |-> args.pattern_name,
          device_name |-> IF Len(args.device_name) > 0 THEN args.device_name
                          ELSE existing[1].device_name,
          message_count |-> existing[1].message_count + 1]
    ELSE [table_name |-> args.table_name,
          pattern_name |-> args.pattern_name,
          device_name |-> args.device_name,
          message_count |-> 1]

\* SELECT ... WHERE topic = :topic AND device_id = :device_id, fetchone()
select_device(table, key) == IF key \in DOMAIN table THEN <<table[key]>> ELSE <<>>

\* a thread that is not inside register_device holds no arguments
NoArgs == [key |-> <<>>, table_name |-> "", pattern_name |-> "", device_name |-> <<>>]

\* a worker thread calls register_device and waits for the lock
DmCall(t, args) ==
    /\ dm_pc[t] = "idle"
    /\ dm_pc' = [dm_pc EXCEPT ![t] = "wait"]
    /\ dm_args' = [dm_args EXCEPT ![t] = args]
    /\ dm_calls' = dm_calls + 1
    /\ UNCHANGED <<mapper_table, dm_lock, dm_existing, dm_ok>>

DmAcquire(t) ==
    /\ dm_pc[t] = "wait"
    /\ lock_available(t)
    /\ dm_lock' = t
    /\ dm_pc' = [dm_pc EXCEPT ![t] = "begin"]
    /\ UNCHANGED <<mapper_table, dm_args, dm_existing, dm_calls, dm_ok>>

\* engine.begin() and the SELECT; either may raise
DmSelect(t) ==
    /\ dm_pc[t] = "begin"
    /\ \/ /\ dm_existing' = [dm_existing EXCEPT
                                ![t] = select_device(mapper_table, dm_args[t].key)]
          /\ dm_pc' = [dm_pc EXCEPT ![t] = "selected"]
       \/ /\ dm_pc' = [dm_pc EXCEPT ![t] = "failed"]
          /\ UNCHANGED dm_existing
    /\ UNCHANGED <<mapper_table, dm_lock, dm_args, dm_calls, dm_ok>>

\* the UPDATE or INSERT and the commit at the end of the with block.  The
\* statement or the commit may raise, and an INSERT of a key that another
\* transaction has committed meanwhile violates unique_topic_device; the
\* transaction is then rolled back.
DmWrite(t) ==
    LET key == dm_args[t].key
        row == registered_row(dm_existing[t], dm_args[t])
        duplicate == Len(dm_existing[t]) = 0 /\ key \in DOMAIN mapper_table
    IN  /\ dm_pc[t] = "selected"
        /\ \/ /\ ~duplicate
              /\ mapper_table' = (key :> row) @@ mapper_table
              /\ dm_ok' = (key :> Append(IF key \in DOMAIN dm_ok THEN dm_ok[key] ELSE <<>>,
                                         <<row.table_name, row.pattern_name>>)) @@ dm_ok
              /\ dm_pc' = [dm_pc EXCEPT ![t] = "written"]
           \/ /\ dm_pc' = [dm_pc EXCEPT ![t] = "failed"]
              /\ UNCHANGED <<mapper_table, dm_ok>>
        /\ UNCHANGED <<dm_lock, dm_args, dm_existing, dm_calls>>

\* leaving the with self._lock block, by return or through the except clause
DmRelease(t) ==
    /\ dm_pc[t] \in {"written", "failed"}
    /\ dm_lock' = IF dm_lock = t THEN 0 ELSE dm_lock
    /\ dm_pc' = [dm_pc EXCEPT ![t] = "idle"]
    /\ dm_existing' = [dm_existing EXCEPT ![t] = <<>>]
    /\ dm_args' = [dm_args EXCEPT ![t] = NoArgs]
    /\ UNCHANGED <<mapper_table, dm_calls, dm_ok>>

----------------------------------------------------------------------------
(* Table names                                                             *)

LowerCase ==
    <<"a", "b", "c", "d", "e", "f", "g", "h", "i", "j", "k", "l", "m",
      "n", "o", "p", "q", "r", "s", "t", "u", "v", "w", "x", "y", "z">>

UpperCase ==
    <<"A", "B", "C", "D", "E", "F", "G", "H", "I", "J", "K", "L", "M",
      "N", "O", "P", "Q", "R", "S", "T", "U", "V", "W", "X", "Y", "Z">>

\* str.lower()
lower(s) ==
    [i \in 1..Len(s) |->
        IF \E j \in 1..26 : UpperCase[j] = s[i]
        THEN LowerCase[CHOOSE j \in 1..26 : UpperCase[j] = s[i]]
        ELSE s[i]]

\* the character class [a-z0-9_]
IsNameChar(c) == c = "_" \/ IsDigit(c) \/ \E j \in 1..26 : LowerCase[j] = c

\* re.sub(r"[^a-z0-9_]+", "_", s): every maximal run of other characters
\* becomes one underscore
RECURSIVE sub_other_runs(_, _)
sub_other_runs(s, inrun) ==
    IF Len(s) = 0 THEN <<>>
    ELSE IF IsNameChar(s[1]) THEN <<s[1]>> \o sub_other_runs(Tail(s), FALSE)
    ELSE (IF inrun THEN <<>> ELSE <<"_">>) \o sub_other_runs(Tail(s), TRUE)

\* re.sub(r"_+", "_", s)
RECURSIVE sub_underscore_runs(_, _)
sub_underscore_runs(s, inrun) ==
    IF Len(s) = 0 THEN <<>>
    ELSE IF s[1] # "_" THEN <<s[1]>> \o sub_underscore_runs(Tail(s), FALSE)
    ELSE (IF inrun THEN <<>> ELSE <<"_">>) \o sub_underscore_runs(Tail(s), TRUE)

\* str.strip('_')
RECURSIVE strip_underscores(_)
strip_underscores(s) ==
    IF Len(s) > 0 /\ s[1] = "_" THEN strip_underscores(Tail(s))
    ELSE IF Len(s) > 0 /\ s[Len(s)] = "_"
         THEN strip_underscores(SubSeq(s, 1, Len(s) - 1))
    ELSE s

\* Router._safe_topic, and the same two substitutions in
\* Router._format_table
safe_topic(topic) ==
    strip_underscores(sub_underscore_runs(sub_other_runs(lower(topic), FALSE), FALSE))

\* a sanitisation that forgets to lower-case the topic
safe_topic_keeping_case(topic) ==
    strip_underscores(sub_underscore_runs(sub_other_runs(topic, FALSE), FALSE))

\* the sanitisation at the head of TableManager._generate_table_name
tm_safe_topic(topic) ==
    strip_underscores(sub_underscore_runs(sub_other_runs(lower(topic), FALSE), FALSE))

\* str.startswith
startswith(s, prefix) ==
    Len(prefix) <= Len(s) /\ SubSeq(s, 1, Len(prefix)) = prefix

\* key.lower() for the payload keys of the model
key_lower(k) ==
    CASE k = "ID" -> "id"
      [] k = "Topic" -> "topic"
      [] k = "DeviceID" -> "deviceid"
      [] k = "deviceID" -> "deviceid"
      [] k = "Device" -> "device"
      [] k = "Date" -> "date"
      [] k = "Time" -> "time"
      [] k = "Temp" -> "temp"
      [] k = "Status" -> "status"
      [] k = "Hum" -> "hum"
      [] k = "Volt" -> "volt"
      [] k = "P0" -> "p0"
      [] k = "P1" -> "p1"
      [] k = "P2" -> "p2"
      [] k = "P3" -> "p3"
      [] k = "P4" -> "p4"
      [] k = "P5" -> "p5"
      [] OTHER -> k

----------------------------------------------------------------------------
(* TableManager                                                            *)

\* type_mapping of _create_table and _add_missing_columns
tm_type_mapping(col_type) ==
    CASE col_type = "string" -> "TEXT"
      [] col_type = "int" -> "INTEGER"
      [] col_type = "float" -> "DOUBLE PRECISION"
      [] col_type = "json" -> "JSONB"
      [] col_type = "boolean" -> "BOOLEAN"
      [] OTHER -> "TEXT"

\* _get_data_columns.analyze_value
analyze_value(value) ==
    CASE value.ty = "bool" -> "boolean"
      [] value.ty = "int" -> "int"
      [] value.ty = "float" -> "float"
      [] value.ty = "str" -> "string"
      [] value.ty \in {"dict", "list"} -> "json"
      [] OTHER -> "string"

\* _get_data_columns.process_dict
process_dict(obj) ==
    [key \in {k \in DOMAIN obj : key_lower(k) \notin {"topic", "ingested_at", "id"}} |->
        LET value == obj[key]
        IN  IF value.ty = "dict" THEN "json"
            ELSE IF value.ty = "list" /\ Len(value.v) > 0
                 THEN IF value.v[1].ty \in {"dict", "list"} THEN "json"
                      ELSE analyze_value(value.v[1])
            ELSE analyze_value(value)]

\* TableManager._get_data_columns
get_data_columns(message_structure) ==
    IF message_structure.ty # "dict" THEN <<>>
    ELSE IF "d" \in DOMAIN message_structure.v /\ message_structure.v["d"].ty = "dict"
         THEN (IF "ts" \in DOMAIN message_structure.v THEN "ts" :> "string" ELSE <<>>)
              @@ process_dict(message_structure.v["d"].v)
    ELSE process_dict(message_structure.v)

\* TableManager._table_exists
table_exists(db, table_name) == table_name \in DOMAIN db

\* the internal type _get_table_schema gives a reflected column type, by
\* the substrings of its lower-cased name
internal_type(sql_type) ==
    CASE sql_type \in {"INTEGER", "BIGINT"} -> "int"
      [] sql_type \in {"DOUBLE PRECISION", "FLOAT", "NUMERIC"} -> "float"
      [] sql_type = "BOOLEAN" -> "boolean"
      [] sql_type \in {"JSON", "JSONB"} -> "json"
      [] OTHER -> "string"

\* TableManager._get_table_schema: the schema and the cache it leaves
get_table_schema(db, cache, table_name) ==
    IF table_name \in DOMAIN cache
    THEN [schema |-> cache[table_name], cache |-> cache]
    ELSE IF table_name \in DOMAIN db
         THEN LET schema_dict ==
                      [c \in DOMAIN db[table_name] |-> internal_type(db[table_name][c])]
              IN  [schema |-> schema_dict, cache |-> (table_name :> schema_dict) @@ cache]
    ELSE [schema |-> <<>>, cache |-> cache]

\* TableManager._schemas_similar: len(intersection) / len(union) >= 0.8
schemas_similar(existing, required) ==
    LET existing_cols == DOMAIN existing \ {"id", "ingested_at", "topic"}
        required_cols == DOMAIN required
    IN  /\ DOMAIN existing # {} /\ DOMAIN required # {}
        /\ existing_cols # {} /\ required_cols # {}
        /\ 5 * Cardinality(existing_cols \cap required_cols)
              >= 4 * Cardinality(existing_cols \cup required_cols)

\* a compatibility that ignores the direction of the conversion
types_compatible_either_way(existing_type, required_type) ==
    \/ existing_type = required_type
    \/ {existing_type, required_type} \in {{"int", "float"}, {"string", "json"}}

\* TableManager._types_compatible
types_compatible(existing_type, required_type) ==
    \/ existing_type = required_type
    \/ <<existing_type, required_type>> \in
          {<<"int", "float">>, <<"string", "json">>, <<"json", "string">>}

\* TableManager._schemas_compatible
schemas_compatible(existing, required) ==
    \A col_name \in DOMAIN required :
        col_name \in DOMAIN existing =>
            types_compatible(existing[col_name], required[col_name])

\* TableManager._find_similar_table over the table names in the order the
\* inspector lists them: Optional name, and the cache the lookups leave
RECURSIVE find_similar_table(_, _, _, _, _)
find_similar_table(db, cache, listing, topic_prefix, required_columns) ==
    IF Len(listing) = 0 THEN [ret |-> <<>>, cache |-> cache]
    ELSE IF ~startswith(listing[1], topic_prefix)
         THEN find_similar_table(db, cache, Tail(listing), topic_prefix, required_columns)
    ELSE LET existing == get_table_schema(db, cache, listing[1])
         IN  IF schemas_similar(existing.schema, required_columns)
             THEN [ret |-> <<listing[1]>>, cache |-> existing.cache]
             ELSE find_similar_table(db, existing.cache, Tail(listing),
                                     topic_prefix, required_columns)

\* TableManager._generate_table_name
generate_table_name(db, cache, listing, topic, device_pattern, message_structure) ==
    LET safe == tm_safe_topic(topic)
        data_cols == get_data_columns(message_structure)
        data_col_count == Cardinality(DOMAIN data_cols)
        existing_similar == find_similar_table(db, cache, listing, safe, data_cols)
    IN  IF data_col_count \in {4, 5, 9}
        THEN [ret |-> safe \o <<"_">> \o IntToStr(data_col_count), cache |-> cache]
        ELSE IF Len(existing_similar.ret) = 1
             THEN [ret |-> existing_similar.ret[1], cache |-> existing_similar.cache]
        ELSE [ret |-> safe \o <<"_">>
                      \o (IF device_pattern # <<"*">> THEN device_pattern
                          ELSE <<"a", "u", "t", "o">>)
                      \o <<"_">> \o IntToStr(data_col_count),
              cache |-> existing_similar.cache]

\* the columns of the table CREATE TABLE makes, as the database reports them
created_columns(columns) ==
    ("id" :> "INTEGER") @@ ("topic" :> "TEXT")
    @@ [c \in DOMAIN columns |-> tm_type_mapping(columns[c])]
    @@ ("ingested_at" :> "TIMESTAMP WITH TIME ZONE")

\* TableManager._create_table.  The CREATE TABLE and its indexes run in one
\* transaction; ddl_ok is whether the database carries them out.  On failure
\* the exception is re-raised (failed) and nothing is cached.
create_table(db, cache, table_name, message_structure, ddl_ok) ==
    LET columns == get_data_columns(message_structure)
        schema_cache == ("id" :> "int") @@ ("topic" :> "string")
                        @@ ("ingested_at" :> "string") @@ columns
        ddl == <<[op |-> "CREATE TABLE", table |-> table_name]>>
    IN  IF ddl_ok /\ ~table_exists(db, table_name)
        THEN [failed |-> FALSE, ddl |-> ddl,
              db |-> (table_name :> created_columns(columns)) @@ db,
              cache |-> (table_name :> schema_cache) @@ cache]
        ELSE [failed |-> TRUE, ddl |-> ddl, db |-> db, cache |-> cache]

\* f"{base_name}_v{version}"
versioned_name(base_name, version) == base_name \o <<"_", "v">> \o IntToStr(version)

\* a version search that goes past the highest version in use
next_free_version_after_last(db, base_name, version) ==
    LET taken == {v \in 1..Cardinality(DOMAIN db) :
                     table_exists(db, versioned_name(base_name, v))}
    IN  IF taken = {} THEN version
        ELSE 1 + (CHOOSE v \in taken : \A w \in taken : w <= v)

\* the while loop of _create_versioned_table
RECURSIVE next_free_version(_, _, _)
next_free_version(db, base_name, version) ==
    IF table_exists(db, versioned_name(base_name, version))
    THEN next_free_version(db, base_name, version + 1)
    ELSE version

\* TableManager._create_versioned_table
create_versioned_table(db, cache, base_name, message_structure, ddl_ok) ==
    LET name == versioned_name(base_name, next_free_version(db, base_name, 1))
    IN  [ret |-> name] @@ create_table(db, cache, name, message_structure, ddl_ok)

\* TableManager._add_missing_columns: the ALTER TABLE statements run in one
\* transaction; an exception is logged and swallowed (failed), the cache
\* entry is dropped only after success
add_missing_columns(db, cache, table_name, required_columns, existing_schema, ddl_ok) ==
    LET missing == DOMAIN required_columns \ DOMAIN existing_schema
        ddl == <<[op |-> "ALTER TABLE", table |-> table_name]>>
    IN  IF missing = {} THEN [failed |-> FALSE, ddl |-> <<>>, db |-> db, cache |-> cache]
        ELSE IF ddl_ok /\ table_exists(db, table_name)
                /\ missing \cap DOMAIN db[table_name] = {}
             THEN [failed |-> FALSE, ddl |-> ddl,
                   db |-> [db EXCEPT ![table_name] =
                             [c \in missing |-> tm_type_mapping(required_columns[c])] @@ @],
                   cache |-> [t \in DOMAIN cache \ {table_name} |-> cache[t]]]
        ELSE [failed |-> TRUE, ddl |-> ddl, db |-> db, cache |-> cache]

\* TableManager._ensure_table_exists: the name returned, the database and
\* cache it leaves, and the DDL statements it issued
ensure_table_exists(db, cache, table_name, message_structure, version_on_conflict, ddl_ok) ==
    IF ~table_exists(db, table_name)
    THEN [ret |-> table_name]
         @@ create_table(db, cache, table_name, message_structure, ddl_ok)
    ELSE LET existing == get_table_schema(db, cache, table_name)
             required_columns == get_data_columns(message_structure)
             versioned == create_versioned_table(db, existing.cache, table_name,
                                                 message_structure, ddl_ok)
         IN  IF schemas_compatible(existing.schema, required_columns)
             THEN [ret |-> table_name]
                  @@ add_missing_columns(db, existing.cache, table_name,
                                         required_columns, existing.schema, ddl_ok)
             ELSE IF version_on_conflict
                  THEN IF versioned.failed
                       THEN [versioned EXCEPT !.ret = table_name]
                       ELSE versioned
             ELSE [ret |-> table_name, failed |-> FALSE, ddl |-> <<>>,
                   db |-> db, cache |-> existing.cache]

\* dict.get(key, default) on a configuration dict
ConfigGet(config, key, default) == IF key \in DOMAIN config THEN config[key] ELSE default

\* TableManager.get_or_create_table_name
get_or_create_table_name(db, cache, listing, table_config, topic, device_pattern, message_structure, ddl_ok) ==
    LET generated == generate_table_name(db, cache, listing, topic, device_pattern,
                                         message_structure)
        named == [ret |-> <<>>, cache |-> cache]
        resolved ==
            IF "table_override" \in DOMAIN table_config
            THEN IF Len(table_config["table_override"]) = 0 THEN generated
                 ELSE [named EXCEPT !.ret = table_config["table_override"][1]]
            ELSE IF Len(ConfigGet(table_config, "name", <<>>)) > 0
                 THEN [named EXCEPT !.ret = table_config["name"]]
            ELSE generated
        auto_create == ConfigGet(table_config, "auto_create", TRUE)
        version_on_conflict == ConfigGet(table_config, "version_on_conflict", TRUE)
    IN  [table_name |-> resolved.ret]
        @@ (IF auto_create
            THEN ensure_table_exists(db, resolved.cache, resolved.ret, message_structure,
                                     version_on_conflict, ddl_ok)
            ELSE [ret |-> resolved.ret, failed |-> FALSE, ddl |-> <<>>,
                  db |-> db, cache |-> resolved.cache])

----------------------------------------------------------------------------
(* PatternMatcher: columns and rows in auto mode                           *)

\* the column type derive_columns_auto gives a value (a bool is an int)
auto_column_type(v) ==
    CASE v.ty \in {"int", "bool"} -> "int"
      [] v.ty = "float" -> "float"
      [] v.ty = "str" -> "string"
      [] OTHER -> "json"

\* a list taken whole
whole_value(v) == v

\* v[0] if isinstance(v, list) and v else v
first_or_self(v) == IF v.ty = "list" /\ Len(v.v) > 0 THEN v.v[1] ELSE v

\* 'd' in payload and isinstance(payload['d'], dict)
is_enveloped(payload) ==
    IsDict(payload) /\ "d" \in KeysOf(payload) /\ IsDict(payload.v["d"])

\* PatternMatcher.derive_columns_auto
derive_columns_auto(topic, payload) ==
    IF ~IsDict(payload) THEN [topic |-> "string", payload |-> "json"]
    ELSE IF is_enveloped(payload)
         THEN (IF "ts" \in KeysOf(payload) THEN "ts" :> "string" ELSE <<>>)
              @@ ("topic" :> "string")
              @@ [k \in KeysOf(payload.v["d"]) |->
                    auto_column_type(first_or_self(payload.v["d"].v[k]))]
    ELSE ("topic" :> "string")
         @@ [k \in KeysOf(payload) |-> auto_column_type(payload.v[k])]

\* PatternMatcher.to_row_auto
to_row_auto(topic, payload) ==
    IF ~IsDict(payload) THEN [topic |-> StrV(topic), payload |-> payload]
    ELSE IF is_enveloped(payload)
         THEN (IF "ts" \in KeysOf(payload) THEN "ts" :> payload.v["ts"] ELSE <<>>)
              @@ [k \in KeysOf(payload.v["d"]) |-> first_or_self(payload.v["d"].v[k])]
              @@ ("topic" :> StrV(topic))
    ELSE payload.v @@ ("topic" :> StrV(topic))

----------------------------------------------------------------------------
(* DataTransformer.  The data is a dict (a function from field names); a   *)
(* transformation, its condition and its action are dicts of the           *)
(* configuration.  A float that holds a fraction is the record             *)
(* [ty, num, den] of its reduced fraction.                                 *)

\* int(value): an Optional, <<>> when int() raises ValueError or TypeError.
\* The numerals of the model are an optional sign and digits.
py_int(value) ==
    CASE value.ty \in {"int", "bool"} -> <<value.v>>
      [] value.ty = "float" -> IF "v" \in DOMAIN value THEN <<value.v>>
                               ELSE <<value.num \div value.den>>
      [] value.ty = "str" -> ParseFloat(strip(value.v))
      [] OTHER -> <<>>

\* 10 ** n
RECURSIVE Pow10(_)
Pow10(n) == IF n = 0 THEN 1 ELSE 10 * Pow10(n - 1)

RECURSIVE Gcd(_, _)
Gcd(a, b) == IF b = 0 THEN a ELSE Gcd(b, a % b)

\* the float num / den
Quotient(num, den) ==
    LET g == Gcd(IF num < 0 THEN 0 - num ELSE num, den)
    IN  IF den \div g = 1 THEN FloatV(num \div g)
        ELSE [ty |-> "float", num |-> num \div g, den |-> den \div g]

\* a == b for the values of the model: numbers by their value
py_eq(a, b) ==
    IF /\ a.ty \in {"int", "float", "bool"} /\ b.ty \in {"int", "float", "bool"}
       /\ "v" \in DOMAIN a /\ "v" \in DOMAIN b
    THEN a.v = b.v
    ELSE a.ty = b.ty /\ a = b

\* a condition check that looks at the topic and the field values only
check_condition_without_has_fields(data, topic, condition) ==
    \/ DOMAIN condition = {}
    \/ /\ "topic" \in DOMAIN condition => condition["topic"] = topic
       /\ "fields" \in DOMAIN condition =>
             \A field_name \in DOMAIN condition["fields"] :
                 /\ field_name \in DOMAIN data
                 /\ py_eq(data[field_name], condition["fields"][field_name])

\* DataTransformer._check_condition
check_condition(data, topic, condition) ==
    \/ DOMAIN condition = {}
    \/ /\ "topic" \in DOMAIN condition => condition["topic"] = topic
       /\ "fields" \in DOMAIN condition =>
             \A field_name \in DOMAIN condition["fields"] :
                 /\ field_name \in DOMAIN data
                 /\ py_eq(data[field_name], condition["fields"][field_name])
       /\ "has_fields" \in DOMAIN condition =>
             \A field_name \in condition["has_fields"] : field_name \in DOMAIN data

\* len(str(fractional_part))
decimal_places(fractional_part) == Len(IntToStr(fractional_part))

\* the number of digits of the fractional part, whatever its sign
decimal_places_unsigned(fractional_part) ==
    Len(NatToStr(IF fractional_part < 0 THEN 0 - fractional_part ELSE fractional_part))

\* the dict without one key
without(data, field) == [k \in DOMAIN data \ {field} |-> data[k]]

\* DataTransformer._combine_decimal_parts
combine_decimal_parts(data, action) ==
    LET integer_field == ConfigGet(action, "integer_field", "")
        fractional_field == ConfigGet(action, "fractional_field", "")
        target_field == ConfigGet(action, "target_field", "")
        remove_fractional == ConfigGet(action, "remove_fractional", FALSE)
    IN  IF "" \in {integer_field, fractional_field, target_field} THEN data
        ELSE IF integer_field \notin DOMAIN data \/ fractional_field \notin DOMAIN data
             THEN data
        ELSE LET integer_part == py_int(data[integer_field])
                 fractional_part == py_int(data[fractional_field])
             IN  IF Len(integer_part) = 0 \/ Len(fractional_part) = 0 THEN data
                 ELSE LET places == Pow10(decimal_places(fractional_part[1]))
                          combined_value ==
                              Quotient(integer_part[1] * places + fractional_part[1], places)
                          result_data == (target_field :> combined_value) @@ data
                      IN  IF remove_fractional /\ fractional_field \in DOMAIN result_data
                          THEN without(result_data, fractional_field)
                          ELSE result_data

\* DataTransformer._scale_value, for a whole scale_factor
scale_value(data, action) ==
    LET field == ConfigGet(action, "field", "")
        scale_factor == ConfigGet(action, "scale_factor", 1)
    IN  IF field = "" \/ field \notin DOMAIN data THEN data
        ELSE IF data[field].ty = "float" /\ "num" \in DOMAIN data[field]
             THEN (field :> Quotient(data[field].num * scale_factor, data[field].den)) @@ data
        ELSE LET original_value == try_convert_to_numeric(data[field])
             IN  IF Len(original_value) = 0 THEN data
                 ELSE (field :> FloatV(original_value[1] * scale_factor)) @@ data

\* DataTransformer._rename_field
rename_field(data, action) ==
    LET from_field == ConfigGet(action, "from_field", "")
        to_field == ConfigGet(action, "to_field", "")
    IN  IF "" \in {from_field, to_field} \/ from_field \notin DOMAIN data THEN data
        ELSE (to_field :> data[from_field]) @@ without(data, from_field)

\* DataTransformer._remove_field
remove_field(data, action) ==
    LET field == ConfigGet(action, "field", "")
    IN  IF field = "" \/ field \notin DOMAIN data THEN data
        ELSE without(data, field)

\* DataTransformer._apply_transformation
apply_transformation(data, transformation) ==
    LET action == ConfigGet(transformation, "action", <<>>)
        action_type == ConfigGet(action, "type", "")
    IN  CASE action_type = "combine_decimal" -> combine_decimal_parts(data, action)
          [] action_type = "scale_value" -> scale_value(data, action)
          [] action_type = "rename_field" -> rename_field(data, action)
          [] action_type = "remove_field" -> remove_field(data, action)
          [] OTHER -> data

\* a loop that ends at the first transformation of an unknown type
RECURSIVE apply_each_until_unknown(_, _, _)
apply_each_until_unknown(result_data, topic, transformations) ==
    IF Len(transformations) = 0 THEN result_data
    ELSE IF ConfigGet(ConfigGet(transformations[1], "action", <<>>), "type", "")
            \notin {"combine_decimal", "scale_value", "rename_field", "remove_field"}
         THEN result_data
    ELSE apply_each_until_unknown(
             IF check_condition(result_data, topic,
                                ConfigGet(transformations[1], "condition", <<>>))
             THEN apply_transformation(result_data, transformations[1])
             ELSE result_data,
             topic, Tail(transformations))

\* the loop of apply_transformations over result_data
RECURSIVE apply_each(_, _, _)
apply_each(result_data, topic, transformations) ==
    IF Len(transformations) = 0 THEN result_data
    ELSE apply_each(
             IF check_condition(result_data, topic,
                                ConfigGet(transformations[1], "condition", <<>>))
             THEN apply_transformation(result_data, transformations[1])
             ELSE result_data,
             topic, Tail(transformations))

\* an empty list of transformations answered with an empty dict
apply_transformations_from_nothing(data, topic, transformations) ==
    apply_each(IF Len(transformations) = 0 THEN <<>> ELSE data, topic, transformations)

\* DataTransformer.apply_transformations
apply_transformations(data, topic, transformations) ==
    IF Len(transformations) = 0 THEN data
    ELSE apply_each(data, topic, transformations)

----------------------------------------------------------------------------
(* MQTT topic filters                                                      *)

\* str.split('/')
RECURSIVE split_slash(_)
split_slash(s) ==
    IF \A i \in 1..Len(s) : s[i] # "/" THEN <<s>>
    ELSE LET at == CHOOSE i \in 1..Len(s) : s[i] = "/" /\ \A j \in 1..(i - 1) : s[j] # "/"
         IN  <<SubSeq(s, 1, at - 1)>> \o split_slash(SubSeq(s, at + 1, Len(s)))

\* a level compared as a literal only
level_matches_literally(f, t) == f = t

\* f == '+' or f == t_parts[i]
level_matches(f, t) == f = <<"+">> \/ f = t

\* the while loop of _topic_filter_matches; i counts from 1
RECURSIVE filter_loop(_, _, _)
filter_loop(f_parts, t_parts, i) ==
    IF i > Len(f_parts) THEN i = Len(t_parts) + 1
    ELSE IF f_parts[i] = <<"#">> THEN i = Len(f_parts)
    ELSE IF i > Len(t_parts) THEN FALSE
    ELSE IF ~level_matches(f_parts[i], t_parts[i]) THEN FALSE
    ELSE filter_loop(f_parts, t_parts, i + 1)

\* _topic_filter_matches
topic_filter_matches(filter_str, topic) ==
    \/ filter_str = topic
    \/ filter_loop(split_slash(filter_str), split_slash(topic), 1)

----------------------------------------------------------------------------
(* DB: the tables of the database, the Table objects of the MetaData, and  *)
(* the inserts.  A state s of a call in progress is a record: schema (the  *)
(* database), meta (MetaData.tables: table -> column names), dbtables      *)
(* (DB._tables), cache (TableManager.table_cache), rtables                 *)
(* (Router._tables), last (Router._last_readings), ivdata (the interval    *)
(* calculator's _interval_data), mapper (the rows of device_mapper), rows  *)
(* (rows inserted per table), raised (an exception is propagating), log    *)
(* (the inserts attempted by this call), ddl (the DDL issued by it),       *)
(* raw_sql (whether execute() accepts a plain str), and the locals of      *)
(* route: table, row, device_id, diff_row, interval_diff_row (Optionals),  *)
(* reached (_calculate_differences was called), ret (the value returned).  *)

\* SQL_TYPE_MAP, as PostgreSQL reports the column it creates
sql_type_map(ctype) ==
    CASE ctype = "string" -> "VARCHAR(255)"
      [] ctype = "int" -> "INTEGER"
      [] ctype = "float" -> "DOUBLE PRECISION"
      [] ctype = "json" -> "JSON"
      [] OTHER -> "VARCHAR(255)"

\* ddl_map of ensure_columns
ddl_map(ctype) ==
    CASE ctype = "string" -> "TEXT"
      [] ctype = "int" -> "INTEGER"
      [] ctype = "float" -> "DOUBLE PRECISION"
      [] ctype = "json" -> "JSON"
      [] OTHER -> "TEXT"

\* DB.ensure_table; db_ok is whether the database carries out the
\* statements of this call
db_ensure_table(s, name, columns, db_ok) ==
    IF s.raised \/ name \in s.dbtables THEN s
    ELSE IF ~db_ok THEN [s EXCEPT !.raised = TRUE]
    ELSE IF name \in DOMAIN s.schema
         THEN [s EXCEPT !.meta = IF name \in DOMAIN @ THEN @
                                 ELSE (name :> DOMAIN s.schema[name]) @@ @,
                        !.dbtables = @ \cup {name}]
    ELSE [s EXCEPT !.schema = (name :> (("id" :> "INTEGER")
                                        @@ [c \in DOMAIN columns |-> sql_type_map(columns[c])]
                                        @@ ("ingested_at" :> "TIMESTAMP"))) @@ @,
                   !.meta = (name :> ({"id", "ingested_at"} \cup DOMAIN columns)) @@ @,
                   !.dbtables = @ \cup {name},
                   !.ddl = Append(@, [op |-> "CREATE TABLE", table |-> name])]

\* DB.ensure_columns: ALTER TABLE for the columns the database lacks, then
\* meta.clear() and meta.reflect().  The statement is handed to execute()
\* as a plain str, which SQLAlchemy 1.x runs and SQLAlchemy 2.x rejects
\* (ObjectNotExecutableError); s.raw_sql is which of the two is installed.
db_ensure_columns(s, table_name, columns, db_ok) ==
    IF s.raised THEN s
    ELSE IF ~db_ok \/ table_name \notin DOMAIN s.schema THEN [s EXCEPT !.raised = TRUE]
    ELSE LET adds == DOMAIN columns \ DOMAIN s.schema[table_name]
             altered == [s.schema EXCEPT ![table_name] =
                            [c \in adds |-> ddl_map(columns[c])] @@ @]
         IN  IF adds = {} THEN s
             ELSE IF ~s.raw_sql THEN [s EXCEPT !.raised = TRUE]
             ELSE [s EXCEPT !.schema = altered,
                            !.meta = [t \in DOMAIN altered |-> DOMAIN altered[t]],
                            !.ddl = Append(@, [op |-> "ALTER TABLE", table |-> table_name])]

\* self.db.insert(self.db.meta.tables[table], row): a KeyError when the
\* MetaData has no such table, a CompileError (unconsumed column names) when
\* the row has a key that is not a column of the Table object, a database
\* error when the statement fails
db_insert(s, table, row, db_ok) ==
    LET ok == /\ db_ok
              /\ table \in DOMAIN s.meta /\ DOMAIN row \subseteq s.meta[table]
              /\ table \in DOMAIN s.schema /\ DOMAIN row \subseteq DOMAIN s.schema[table]
        entry == [table |-> table, row |-> row, ok |-> ok,
                  columns |-> IF table \in DOMAIN s.schema THEN s.schema[table] ELSE <<>>]
    IN  IF s.raised THEN s
        ELSE [s EXCEPT !.log = Append(@, entry),
                       !.raised = ~ok,
                       !.rows = IF ok
                                THEN (table :> ((IF table \in DOMAIN @ THEN @[table] ELSE 0) + 1)) @@ @
                                ELSE @]


----------------------------------------------------------------------------
(* Router                                                                  *)

\* the first key of a dict among the given ones (the payloads of the model
\* carry at most one key that names the device)
first_key(keys) == CHOOSE k \in keys : TRUE

\* the keys Router._extract_device_id accepts whatever their case
device_keys(obj) ==
    {k \in DOMAIN obj : key_lower(k) \in {"deviceid", "device_id", "device"}}

\* a device id that falls back to 'unknown', as the log line of route does
extract_device_id_or_unknown(payload, row_data) ==
    IF IsDict(payload) /\ "DeviceID" \in KeysOf(payload)
    THEN <<PyStr(payload.v["DeviceID"])>>
    ELSE << <<"u", "n", "k", "n", "o", "w", "n">> >>

\* Router._extract_device_id: Optional[str]; row_data is an Optional row
extract_device_id(payload, row_data) ==
    LET d == payload.v["d"].v
        listed(v) == PyStr(first_or_self(v))
    IN  IF IsDict(payload) /\ "DeviceID" \in KeysOf(payload)
        THEN <<PyStr(payload.v["DeviceID"])>>
        ELSE IF is_enveloped(payload) /\ "DeviceID" \in DOMAIN d
        THEN <<listed(d["DeviceID"])>>
        ELSE IF Len(row_data) = 1 /\ DOMAIN row_data[1] # {}
                /\ "DeviceID" \in DOMAIN row_data[1]
        THEN <<PyStr(row_data[1]["DeviceID"])>>
        ELSE IF IsDict(payload) /\ device_keys(payload.v) # {}
        THEN <<PyStr(payload.v[first_key(device_keys(payload.v))])>>
        ELSE IF is_enveloped(payload) /\ device_keys(d) # {}
        THEN <<listed(d[first_key(device_keys(d))])>>
        ELSE <<>>

\* the metadata both engines copy from the row
row_metadata(current_row) ==
    [DeviceID |-> Get(current_row, "DeviceID"), Date |-> Get(current_row, "Date"),
     Time |-> Get(current_row, "Time"), ts |-> Get(current_row, "ts")]

\* difference = numeric_current - last_data[key]
field_difference(numeric_current, last_value) == numeric_current - last_value

\* Router._calculate_differences: [ret: Optional row, last: the new
\* _last_readings]
calculate_differences(readings, topic, device_id, current_row) ==
    LET key == key_of(topic, device_id)
        numeric == DOMAIN extract_numeric_fields(current_row)
        value == extract_numeric_fields(current_row)
        last_data == readings[key].data
        diff_row ==
            [k \in numeric |->
                FloatV(IF k \in DOMAIN last_data
                       THEN field_difference(value[k], last_data[k])
                       ELSE value[k])]
            @@ [topic |-> StrV(topic)] @@ row_metadata(current_row)
    IN  IF key \notin DOMAIN readings
        THEN [ret |-> <<>>,
              last |-> (key :> [data |-> value, metadata |-> row_metadata(current_row)])
                       @@ readings]
        ELSE [ret |-> IF numeric # {} THEN <<diff_row>> ELSE <<>>,
              last |-> [readings EXCEPT ![key] =
                          [data |-> value @@ last_data,
                           metadata |-> row_metadata(current_row)]]]

underscore_interval_diff ==
    <<"_", "i", "n", "t", "e", "r", "v", "a", "l", "_", "d", "i", "f", "f">>

\* default_config of _get_interval_config
default_interval_config ==
    [enabled |-> FALSE, frequency_minutes |-> 5, table_suffix |-> underscore_interval_diff]

\* Router._get_interval_config; rule is an Optional dict
get_interval_config(route_by_topic, rule, topic) ==
    LET of_rule == IF Len(rule) = 1 /\ "interval_difference" \in DOMAIN rule[1]
                   THEN rule[1]["interval_difference"] ELSE <<>>
    IN  IF /\ Len(topic) > 0 /\ topic \in DOMAIN route_by_topic
           /\ "interval_difference" \in DOMAIN route_by_topic[topic]
        THEN of_rule @@ route_by_topic[topic]["interval_difference"]
             @@ default_interval_config
        ELSE of_rule @@ default_interval_config

\* Router._process_interval_differences: [ret, data]
process_interval_differences(data, route_by_topic, topic, device_id, current_row, rule, clock) ==
    LET interval_config == get_interval_config(route_by_topic, rule, topic)
    IN  IF ~interval_config.enabled THEN [ret |-> <<>>, data |-> data]
        ELSE process_reading(data, topic, device_id, current_row,
                             interval_config.frequency_minutes, clock)

\* str.replace('{topic}', safe): what table_tpl.format(topic=safe) gives
\* for a template with no other braces
RECURSIVE replace_topic(_, _)
replace_topic(table_tpl, safe) ==
    IF Len(table_tpl) = 0 THEN <<>>
    ELSE IF startswith(table_tpl, <<"{", "t", "o", "p", "i", "c", "}">>)
         THEN safe \o replace_topic(SubSeq(table_tpl, 8, Len(table_tpl)), safe)
    ELSE <<table_tpl[1]>> \o replace_topic(Tail(table_tpl), safe)

\* Router._format_table for a non-empty template
format_table(table_tpl, topic) == replace_topic(table_tpl, safe_topic(topic))

\* Router._ensure
router_ensure(s, table, columns, db_ok) ==
    IF s.raised \/ table \in DOMAIN s.rtables THEN s
    ELSE LET t == db_ensure_table(s, table, columns, db_ok)
         IN  IF t.raised THEN t ELSE [t EXCEPT !.rtables = (table :> columns) @@ @]

\* self._ensure(table, columns); self.db.ensure_columns(table, columns)
ensure_both(s, table, columns, db_ok) ==
    CHOOSE after \in
        {db_ensure_columns(ensured, table, columns, db_ok) :
            ensured \in {router_ensure(s, table, columns, db_ok)}} : TRUE

\* if self.device_mapper: self.device_mapper.register_device(...), which
\* returns False without raising when the database fails
register(s, has_mapper, db_ok, topic, device_id, table_name, pattern_name) ==
    LET key == <<topic, device_id>>
        args == [key |-> key, table_name |-> table_name,
                 pattern_name |-> pattern_name, device_name |-> <<>>]
    IN  IF s.raised \/ ~has_mapper \/ ~db_ok THEN s
        ELSE [s EXCEPT !.mapper =
                 (key :> registered_row(select_device(s.mapper, key), args)) @@ @]

\* interval_columns: the columns plus the five interval columns not present
interval_columns_of(columns) ==
    columns @@ [interval_boundary |-> "string", start_P0_value |-> "float",
                start_P0_time |-> "string", end_P0_value |-> "float",
                end_P0_time |-> "string"]

\* f"{pattern_name or 'matched'}_interval", 'auto_interval'
interval_pattern_name(pattern_name) ==
    CASE pattern_name = "auto" -> "auto_interval"
      [] pattern_name = "matched" -> "matched_interval"
      [] pattern_name = "flat_series" -> "flat_series_interval"
      [] pattern_name = "p0_series" -> "p0_series_interval"
      [] pattern_name = "legacy" -> "legacy_interval"
      [] OTHER -> pattern_name

\* a lookup that always keeps the matched pattern
pattern_by_name_matched(patterns, override, matched_pattern) == matched_pattern

\* self._pattern_by_name.get(override, matched_pattern): the last pattern
\* of that name, or the matched one
RECURSIVE pattern_by_name(_, _, _)
pattern_by_name(patterns, override, matched_pattern) ==
    IF Len(patterns) = 0 THEN matched_pattern
    ELSE LET p == patterns[Len(patterns)]
         IN  IF "name" \in DOMAIN p /\ p.name = override THEN <<p>>
             ELSE pattern_by_name(SubSeq(patterns, 1, Len(patterns) - 1), override,
                                  matched_pattern)

\* the companion table is ensured, the row inserted, the device registered
\* (lines 313-324, 350-361 and their copies in the auto branch)
insert_companion(s, has_mapper, topic, table, columns, row, pattern_name, db_ok) ==
    CHOOSE after \in
        {register(inserted, has_mapper, db_ok, topic, s.device_id[1], table, pattern_name) :
            inserted \in {db_insert(ensured, table, row, db_ok) :
                ensured \in {ensure_both(s, table, columns, db_ok)}}} : TRUE

\* lines 261-300 and 380-394: the table, the columns and the pattern name
\* route works with, and the database and cache the table manager leaves
route_table(s, patterns, topic, payload, rule, listing, db_ok) ==
    LET matched_pattern == match(patterns, payload)
        override == IF Len(rule) = 1 /\ "pattern_name" \in DOMAIN rule[1]
                       /\ rule[1]["pattern_name"] # ""
                    THEN <<rule[1]["pattern_name"]>> ELSE <<>>
        pattern == IF Len(override) = 0 THEN matched_pattern
                   ELSE IF override[1] = "auto" THEN <<>>
                   ELSE pattern_by_name(patterns, override[1], matched_pattern)
        pattern_name == IF Len(override) = 1 THEN override[1]
                        ELSE IF Len(matched_pattern) = 1 THEN matched_pattern[1].name
                        ELSE ""
        auto_columns == derive_columns_auto(topic, payload)
        table_config ==
            [table_override |-> IF Len(rule) = 1 /\ "table_override" \in DOMAIN rule[1]
                                THEN <<rule[1]["table_override"]>> ELSE <<>>,
             auto_create |-> TRUE, version_on_conflict |-> TRUE]
        device_pattern == IF Len(rule) = 1 /\ "pattern" \in DOMAIN rule[1]
                          THEN rule[1]["pattern"] ELSE <<"*">>
    IN  IF Len(pattern) = 1 /\ "table" \in DOMAIN pattern[1] /\ Len(pattern[1].table) > 0
        THEN [ret |-> format_table(pattern[1].table, topic),
              columns |-> IF "columns" \notin DOMAIN pattern[1] THEN <<>>
                          ELSE IF pattern[1].columns.auto THEN auto_columns
                          ELSE pattern[1].columns.dict,
              pattern |-> pattern_name,
              registered_as |-> IF pattern_name = "" THEN "matched" ELSE pattern_name,
              db |-> s.schema, cache |-> s.cache, ddl |-> <<>>]
        ELSE [columns |-> auto_columns, pattern |-> "auto", registered_as |-> "auto"]
             @@ get_or_create_table_name(s.schema, s.cache, listing, table_config, topic,
                                         device_pattern, payload, db_ok)

\* lines 301-306 (396-401): the base table is ensured, the row built and
\* the device id extracted
route_base(s, named, topic, payload, db_ok) ==
    LET row == to_row_auto(topic, payload)
        extracted == extract_device_id(payload, <<row>>)
    IN  CHOOSE after \in
            {IF ensured.raised THEN ensured
             ELSE [ensured EXCEPT !.row = <<row>>,
                                  !.device_id = IF Len(extracted) = 1 /\ Len(extracted[1]) > 0
                                                THEN extracted ELSE <<>>] :
                ensured \in {ensure_both([s EXCEPT !.schema = named.db,
                                                   !.cache = named.cache,
                                                   !.ddl = @ \o named.ddl,
                                                   !.table = named.ret],
                                         named.ret, named.columns, db_ok)}} : TRUE

\* lines 307-327 (402-422): the consecutive differences
route_consecutive(s, has_mapper, topic, table, columns, pattern_name, db_ok) ==
    IF s.raised \/ Len(s.device_id) = 0 THEN s
    ELSE CHOOSE after \in
            {IF Len(cd.ret) = 0 THEN [s EXCEPT !.reached = TRUE, !.last = cd.last]
             ELSE insert_companion(
                      [s EXCEPT !.reached = TRUE, !.last = cd.last, !.diff_row = cd.ret],
                      has_mapper, topic, table \o <<"_", "d", "i", "f", "f">>, columns,
                      cd.ret[1], pattern_name, db_ok) :
                cd \in {calculate_differences(s.last, topic, s.device_id[1], s.row[1])}} : TRUE

\* lines 329-364 (424-459): the interval differences
route_interval(s, config, topic, rule, table, columns, pattern_name, db_ok, clock) ==
    IF s.raised \/ Len(s.device_id) = 0 THEN s
    ELSE CHOOSE after \in
            {IF Len(pid.ret) = 0 THEN [s EXCEPT !.ivdata = pid.data]
             ELSE insert_companion(
                      [s EXCEPT !.ivdata = pid.data, !.interval_diff_row = pid.ret],
                      config.has_mapper, topic,
                      table \o get_interval_config(config.route_by_topic, rule, topic).table_suffix,
                      interval_columns_of(columns), pid.ret[1],
                      interval_pattern_name(pattern_name), db_ok) :
                pid \in {process_interval_differences(s.ivdata, config.route_by_topic, topic,
                                                      s.device_id[1], s.row[1], rule, clock)}} : TRUE

\* lines 366-376 (461-471): the value returned, unless an exception leaves
\* route
route_return(s, table, pattern_name, columns) ==
    IF s.raised THEN s
    ELSE [s EXCEPT !.ret =
             <<[table |-> table, pattern |-> pattern_name, columns |-> columns,
                baseline |-> /\ Len(s.device_id) = 1
                             /\ Len(s.diff_row) = 0
                             /\ Len(s.interval_diff_row) = 0]>>]

DbStages == {"base", "consecutive", "interval"}

\* Router.route, its statements one after another.  config is the router's
\* construction (has_mapper, route_by_topic), rule an Optional dict, listing
\* the order in which the inspector lists the tables, db_ok whether the
\* database carries out the statements of this call: those that resolve
\* and ensure the base table, those of the consecutive row and those of
\* the interval row.
route(s, config, patterns, topic, payload, rule, listing, db_ok, clock) ==
    CHOOSE after \in
        {route_return(interval, named.ret, named.pattern, named.columns) :
            <<named, interval>> \in
                {<<named, route_interval(consecutive, config, topic, rule, named.ret,
                                         named.columns, named.registered_as, db_ok.interval, clock)>> :
                    <<named, consecutive>> \in
                        {<<named, route_consecutive(based, config.has_mapper, topic, named.ret,
                                                    named.columns, named.registered_as,
                                                    db_ok.consecutive)>> :
                            <<named, based>> \in
                                {<<named, route_base(s, named, topic, payload, db_ok.base)>> :
                                    named \in {route_table(s, patterns, topic, payload, rule,
                                                           listing, db_ok.base)}}}}} : TRUE

----------------------------------------------------------------------------
(* Bounded inputs of the interval engine                                   *)

MaxReadings == 4
MaxDay == 1

Gree1 == <<"G", "r", "e", "e", "1">>
Dev103 == <<"1", "0", "3">>
Dev104 == <<"1", "0", "4">>
DateField == StrV(<<"0", "1", "0", "1", "2", "0", "2", "4">>)

\* the scenario's four samples: HHMMSS and P0
ScenTimes ==
    << <<"1", "2", "0", "0", "3", "0">>, <<"1", "2", "0", "2", "1", "0">>,
       <<"1", "2", "0", "6", "1", "5">>, <<"1", "2", "1", "1", "0", "5">> >>
ScenP0 == <<100, 110, 150, 200>>
ScenKey == <<Gree1, Dev103>>

IvFreqs == {5, 10}
Row(dev, time, p0) ==
    [topic |-> StrV(Gree1), DeviceID |-> StrV(dev), Date |-> DateField,
     Time |-> StrV(time), P0 |-> p0]

\* rows as to_row_auto builds them from flat payloads: the scenario's four
\* samples, two of them also with a second parameter P1, a sample without a
\* Time (its timestamp is the wall clock) and a sample with no numeric field
IvRows ==
    {Row(Dev103, ScenTimes[i], IntV(ScenP0[i])) : i \in 1..4}
    \cup {Row(Dev103, ScenTimes[i], IntV(ScenP0[i])) @@ [P1 |-> StrV(<<"7">>)] : i \in {2, 3}}
    \cup {[topic |-> StrV(Gree1), DeviceID |-> StrV(Dev103), Date |-> DateField,
           P0 |-> IntV(150)]}
    \cup {Row(Dev103, ScenTimes[4], StrV(<<"x">>))}

\* the wall clock only moves forward
Clocks == [day : 0..MaxDay, h : {12}, m : {7}, s : {0}]
ClockLeq(a, b) ==
    \/ a.day < b.day
    \/ a.day = b.day /\ (a.h * 60 + a.m) * 60 + a.s <= (b.h * 60 + b.m) * 60 + b.s

NoObs == [runs |-> 0, lastkey |-> <<>>]
ObsOf(key) == IF key \in DOMAIN iv_obs THEN iv_obs[key] ELSE NoObs
ScenOff == [k |-> 5, day |-> 0, rets |-> <<>>]

\* one call of process_reading, with what an observer of its inputs and
\* of its return value records
ProcessReading(topic, device_id, row, clock) ==
    LET key == <<topic, device_id>>
        F == cfg_frequency_minutes
        res == process_reading(interval_data, topic, device_id, row, F, clock)
        accepted == DOMAIN extract_numeric_fields(row) # {}
        samplekey == calculate_interval_boundary(extract_timestamp(row, clock), F)
        o == ObsOf(key)
        turned == Len(o.lastkey) = 1 /\ o.lastkey[1] # samplekey
        runs == IF Len(o.lastkey) = 0 \/ turned THEN o.runs + 1 ELSE o.runs
        o2 == IF accepted
              THEN [runs |-> runs, lastkey |-> <<samplekey>>]
              ELSE o
        onScen ==
            /\ iv_scen.k < 4
            /\ F = 5
            /\ Get(row, "Time") = StrV(ScenTimes[iv_scen.k + 1])
            /\ Get(row, "P0") = IntV(ScenP0[iv_scen.k + 1])
            /\ "P1" \notin DOMAIN row
            /\ IF iv_scen.k = 0 THEN key_of(topic, device_id) \notin DOMAIN interval_data
               ELSE clock.day = iv_scen.day
    IN  /\ iv_calls < MaxReadings
        /\ ClockLeq(now, clock)
        /\ now' = clock
        /\ UNCHANGED cfg_frequency_minutes
        /\ iv_calls' = iv_calls + 1
        /\ interval_data' = res.data
        /\ iv_obs' = (key :> o2) @@ iv_obs
        /\ iv_last' = [called |-> TRUE, key |-> key, accepted |-> accepted,
                       samplekey |-> samplekey, runs |-> o2.runs,
                       turned |-> accepted /\ turned, prevkey |-> o.lastkey,
                       ret |-> res.ret]
        /\ iv_scen' = IF key # ScenKey THEN iv_scen
                      ELSE IF onScen
                      THEN [k |-> iv_scen.k + 1, day |-> clock.day,
                            rets |-> Append(iv_scen.rets, res.ret)]
                      ELSE ScenOff

IntervalInit ==
    /\ interval_data = <<>>
    /\ iv_calls = 0
    /\ iv_obs = <<>>
    /\ iv_last = [called |-> FALSE, key |-> ScenKey, accepted |-> FALSE,
                  samplekey |-> <<>>, runs |-> 0, turned |-> FALSE,
                  prevkey |-> <<>>, ret |-> <<>>]
    /\ iv_scen = [k |-> 0, day |-> 0, rets |-> <<>>]

IntervalNext ==
    \E row \in IvRows, clock \in Clocks :
        ProcessReading(Gree1, row.DeviceID.v, row, clock)

----------------------------------------------------------------------------
(* Bounded inputs of the pattern matcher                                   *)

MaxPatterns == 3

MatchPatterns ==
    {[name |-> "flat_a", match |-> [keys |-> <<"DeviceID", "P0">>]],
     [name |-> "flat_b", match |-> [keys |-> <<"DeviceID", "P1">>]],
     [name |-> "flat_ab", match |-> [keys |-> <<"DeviceID", "P0", "P1">>]],
     [name |-> "device", match |-> [keys |-> <<"DeviceID">>]],
     [name |-> "array_enveloped", match |-> [schema |-> "array_enveloped"]],
     [name |-> "no_keys", match |-> [keys |-> <<>>]],
     [name |-> "no_match"]}

\* lists of distinct patterns, up to MaxPatterns long
RECURSIVE PatternListsOfLen(_)
PatternListsOfLen(n) ==
    IF n = 0 THEN {<<>>}
    ELSE {Append(l, p) : <<l, p>> \in
             {<<l, p>> \in PatternListsOfLen(n - 1) \X MatchPatterns :
                 \A i \in 1..Len(l) : l[i] # p}}
PatternLists == UNION {PatternListsOfLen(n) : n \in 0..MaxPatterns}

MatchTopKeys == {"DeviceID", "P0", "P1", "ts"}
MatchNestedKeys == {"DeviceID", "P0"}
MatchPayloads ==
    LET flat(K) == [k \in K |-> StrV(<<"1">>)]
        ds == {DictV([k \in K |-> ListV(<<IntV(1)>>)]) : K \in SUBSET MatchNestedKeys}
              \cup {StrV(<<"x">>)}
    IN  {DictV(flat(K)) : K \in SUBSET MatchTopKeys}
        \cup {DictV(flat(K) @@ [d |-> dv]) : <<K, dv>> \in (SUBSET MatchTopKeys) \X ds}
        \cup {StrV(<<"x">>)}

MatchInit ==
    /\ m_patterns \in PatternLists
    /\ m_payload \in MatchPayloads
    /\ m_result = <<>>

MatchIdle ==
    /\ m_patterns = <<>>
    /\ m_payload = None
    /\ m_result = <<>>

\* one call of PatternMatcher.match
Match ==
    /\ m_result = <<>>
    /\ m_result' = <<match(m_patterns, m_payload)>>
    /\ UNCHANGED <<m_patterns, m_payload>>

----------------------------------------------------------------------------
(* Bounded inputs of the device mapper                                     *)

MaxThreads == 2
MaxRegisters == 3

DmThreads == 1..MaxThreads
DmKeys == {<<Gree1, Dev103>>, <<Gree1, Dev104>>}
\* the calls the router makes (no device_name) and one that names the device
DmArgs ==
    {[key |-> k, table_name |-> tp[1], pattern_name |-> tp[2], device_name |-> n] :
        <<k, tp, n>> \in DmKeys
                         \X {<<"gree1_4_diff", "auto">>,
                              <<"gree1_4_interval_diff", "auto_interval">>}
                         \X {<<>>, <<"p", "u", "m", "p">>}}

DmInit ==
    /\ mapper_table = <<>>
    /\ dm_lock = 0
    /\ dm_pc = [t \in DmThreads |-> "idle"]
    /\ dm_args = [t \in DmThreads |-> NoArgs]
    /\ dm_existing = [t \in DmThreads |-> <<>>]
    /\ dm_calls = 0
    /\ dm_ok = <<>>

DmNext ==
    \E t \in DmThreads :
        \/ \E args \in DmArgs : dm_calls < MaxRegisters /\ DmCall(t, args)
        \/ DmAcquire(t)
        \/ DmSelect(t)
        \/ DmWrite(t)
        \/ DmRelease(t)

----------------------------------------------------------------------------
(* Bounded inputs of the table manager                                     *)

MaxEnsures == 2

DevX == <<"D", "e", "v", "X">>
devx_4 == <<"d", "e", "v", "x", "_", "4">>

\* a configured table name with the topic placeholder: "{topic}_readings"
topic_readings ==
    <<"{", "t", "o", "p", "i", "c", "}", "_", "r", "e", "a", "d", "i", "n", "g", "s">>

\* the table an auto-named six-field reading of the topic DevXs has created
devxs_auto_6 == <<"d", "e", "v", "x", "s", "_", "a", "u", "t", "o", "_", "6">>

\* a flat four-field reading, by the value of its Temp field
TempReading(temp) ==
    DictV([DeviceID |-> StrV(<<"d", "1">>), Time |-> StrV(<<"1", "2", "0", "0", "0", "0">>),
           Temp |-> temp, Status |-> StrV(<<"o", "k">>)])

\* a flat six-field reading
SixFields ==
    DictV(("Hum" :> IntV(40)) @@ ("Volt" :> FloatV(3)) @@ TempReading(FloatV(20)).v)

TmPayloads ==
    { TempReading(FloatV(20)),
      TempReading(StrV(<<"h", "o", "t">>)),
      TempReading(IntV(20)),
      DictV(("ID" :> IntV(7)) @@ TempReading(FloatV(20)).v),
      DictV(("Hum" :> IntV(40)) @@ TempReading(FloatV(20)).v),
      SixFields,
      DictV([d |-> DictV([DeviceID |-> ListV(<<IntV(1)>>), Temp |-> ListV(<<FloatV(20)>>)]),
             ts |-> StrV(<<"1", "2", "0", "0", "0", "0">>)]),
      StrV(<<"x">>) }

\* the device rules: the configuration the router passes for a rule with
\* and without an override, and configurations in the table_config format
TmRules ==
    { [pattern |-> <<"*">>,
       table_config |-> [table_override |-> <<>>, auto_create |-> TRUE,
                         version_on_conflict |-> TRUE]],
      [pattern |-> <<"d", "1">>,
       table_config |-> [table_override |-> <<>>, auto_create |-> TRUE,
                         version_on_conflict |-> TRUE]],
      [pattern |-> <<"*">>,
       table_config |-> [table_override |-> <<devx_4>>, auto_create |-> TRUE,
                         version_on_conflict |-> TRUE]],
      [pattern |-> <<"*">>,
       table_config |-> [table_override |-> <<>>, auto_create |-> TRUE,
                         version_on_conflict |-> FALSE]],
      [pattern |-> <<"*">>, table_config |-> [name |-> devx_4]],
      [pattern |-> <<"*">>, table_config |-> [name |-> topic_readings]],
      [pattern |-> <<"*">>, table_config |-> [name |-> <<>>, auto_create |-> FALSE]],
      [pattern |-> <<"d", "1">>, table_config |-> <<>>] }

\* the table a four-field reading with a float Temp creates
devx_4_columns == created_columns(get_data_columns(TempReading(FloatV(20))))

\* database states met at start-up: empty, or holding devx_4 and some of
\* its shadow versions
TmInitialDbs ==
    { <<>>,
      devx_4 :> devx_4_columns,
      (devx_4 :> devx_4_columns) @@ (versioned_name(devx_4, 1) :> devx_4_columns),
      (devx_4 :> devx_4_columns) @@ (versioned_name(devx_4, 2) :> devx_4_columns),
      devxs_auto_6 :> created_columns(get_data_columns(SixFields)) }

\* the orders in which the inspector may list the tables
Listings(db) ==
    {l \in [1..Cardinality(DOMAIN db) -> DOMAIN db] :
        \A t \in DOMAIN db : \E i \in DOMAIN l : l[i] = t}

NoTmCall ==
    [called |-> FALSE, args |-> <<>>, ret |-> <<>>, table_name |-> <<>>, ddl |-> <<>>,
     failed |-> FALSE, db |-> <<>>]

\* one call of get_or_create_table_name
EnsureTable(table_config, topic, device_pattern, message_structure, listing, ddl_ok) ==
    \E r \in {get_or_create_table_name(db_schema, table_cache, listing, table_config,
                                        topic, device_pattern, message_structure, ddl_ok)} :
        /\ tm_calls' = tm_calls + 1
        /\ db_schema' = r.db
        /\ table_cache' = r.cache
        /\ tm_prev' = tm_last
        /\ tm_last' = [called |-> TRUE,
                       args |-> <<table_config, topic, device_pattern, message_structure>>,
                       ret |-> r.ret, table_name |-> r.table_name, ddl |-> r.ddl,
                       failed |-> r.failed, db |-> db_schema]

TmInit ==
    /\ db_schema \in TmInitialDbs
    /\ table_cache = <<>>
    /\ tm_calls = 0
    /\ tm_last = NoTmCall
    /\ tm_prev = NoTmCall

TmIdle ==
    /\ db_schema = <<>>
    /\ table_cache = <<>>
    /\ tm_calls = 0
    /\ tm_last = NoTmCall
    /\ tm_prev = NoTmCall

TmNext ==
    /\ tm_calls < MaxEnsures
    /\ \E listing \in Listings(db_schema), rule \in TmRules,
          message_structure \in TmPayloads, ddl_ok \in BOOLEAN :
           EnsureTable(rule.table_config, DevX, rule.pattern, message_structure,
                       listing, ddl_ok)

----------------------------------------------------------------------------
(* Bounded inputs of the router                                            *)

MaxRoutes == 3

T120030 == StrV(ScenTimes[1])
T120615 == StrV(ScenTimes[3])
T121105 == StrV(ScenTimes[4])

\* a flat nine-field sample of device 103: DeviceID, Date, Time, P0..P5
NineFields(p) ==
    DictV([DeviceID |-> StrV(Dev103), Date |-> DateField, Time |-> T120030,
           P0 |-> IntV(p), P1 |-> IntV(p + 1), P2 |-> IntV(p + 2),
           P3 |-> IntV(p + 3), P4 |-> IntV(p + 4), P5 |-> IntV(p + 5)])

\* a flat sample that also carries ts, its reading sent as a string
FlatTs(time, p0) ==
    DictV([DeviceID |-> StrV(Dev103), Date |-> DateField, Time |-> time, ts |-> time,
           P0 |-> StrV(p0)])

\* a d-envelope sample: lists under d, ts beside it
Enveloped(p0) ==
    DictV([d |-> DictV([DeviceID |-> ListV(<<IntV(103)>>), P0 |-> ListV(<<IntV(p0)>>)]),
           ts |-> T120030])

RoutePayloads ==
    { NineFields(10), NineFields(15),
      FlatTs(T120030, <<"1", "0">>), FlatTs(T120615, <<"1", "5">>),
      FlatTs(T121105, <<"2", "0">>), FlatTs(T120615, <<"x">>),
      DictV(("P1" :> IntV(7)) @@ FlatTs(T120615, <<"1", "5">>).v),
      Enveloped(10), Enveloped(15),
      DictV([P0 |-> IntV(10)]) }

\* the device rules of a route: none, and one that turns the interval
\* differences on
RouteRules ==
    { <<>>,
      << [pattern |-> <<"*">>, interval_difference |-> [enabled |-> TRUE]] >> }

flat_series ==
    [name |-> "flat_series",
     match |-> [keys |-> <<"DeviceID", "Date", "Time", "ts", "P0">>],
     table |-> <<"{", "t", "o", "p", "i", "c", "}", "_", "d", "a", "t", "a">>,
     columns |-> [auto |-> TRUE]]

\* the router as main builds it from a configuration without patterns (no
\* device mapper, no routes), and one built with a device mapper and a
\* pattern; over either SQLAlchemy
RouterSetups ==
    {[patterns |-> <<>>,
      config |-> [has_mapper |-> FALSE, raw_sql |-> raw_sql, route_by_topic |-> <<>>]] :
        raw_sql \in BOOLEAN}
    \cup {[patterns |-> <<flat_series>>,
           config |-> [has_mapper |-> TRUE, raw_sql |-> raw_sql, route_by_topic |-> <<>>]] :
             raw_sql \in BOOLEAN}

\* the tables in the order the inspector lists them: some order, or its
\* reverse
RECURSIVE SomeOrder(_)
SomeOrder(S) ==
    IF S = {} THEN <<>>
    ELSE LET x == CHOOSE x \in S : TRUE IN <<x>> \o SomeOrder(S \ {x})
Reversed(l) == [i \in 1..Len(l) |-> l[Len(l) + 1 - i]]
RouteListings(db) == {SomeOrder(DOMAIN db), Reversed(SomeOrder(DOMAIN db))}

NoRoute ==
    [called |-> FALSE, topic |-> <<>>, payload |-> None, device_id |-> <<>>,
     reached |-> FALSE, table |-> <<>>, row |-> <<>>, prev_row |-> <<>>,
     diff_row |-> <<>>, interval_diff_row |-> <<>>, log |-> <<>>, ddl |-> <<>>,
     raised |-> FALSE, ret |-> <<>>, first |-> FALSE]

NotSeen == [n |-> 0, emitted |-> 0, row |-> <<>>]
SeenOf(key) == IF key \in DOMAIN r_seen THEN r_seen[key] ELSE NotSeen

\* one call of Router.route, with what an observer of the call records: per
\* (topic, device_id) the samples handed to _calculate_differences, the rows
\* it returned and the last sample's row
Route(topic, payload, rule, listing, db_ok) ==
    LET s == [schema |-> db_schema, meta |-> meta_tables, dbtables |-> db_tables,
              cache |-> table_cache, rtables |-> r_tables, last |-> last_readings,
              ivdata |-> interval_data, mapper |-> mapper_table, rows |-> db_rows,
              raised |-> FALSE, log |-> <<>>, ddl |-> <<>>, raw_sql |-> r_config.raw_sql,
              table |-> <<>>, row |-> <<>>, device_id |-> <<>>, reached |-> FALSE,
              diff_row |-> <<>>, interval_diff_row |-> <<>>, ret |-> <<>>]
    IN  \E r \in {route(s, r_config, m_patterns, topic, payload, rule, listing, db_ok, now)} :
        LET key == <<topic, r.device_id[1]>>
            seen == SeenOf(key)
        IN  /\ r_calls' = r_calls + 1
            /\ db_schema' = r.schema
            /\ meta_tables' = r.meta
            /\ db_tables' = r.dbtables
            /\ table_cache' = r.cache
            /\ r_tables' = r.rtables
            /\ last_readings' = r.last
            /\ interval_data' = r.ivdata
            /\ mapper_table' = r.mapper
            /\ db_rows' = r.rows
            /\ r_seen' = IF r.reached
                         THEN (key :> [n |-> seen.n + 1,
                                       emitted |-> seen.emitted + Len(r.diff_row),
                                       row |-> r.row]) @@ r_seen
                         ELSE r_seen
            /\ r_last' = [called |-> TRUE, topic |-> topic, payload |-> payload,
                          device_id |-> r.device_id, reached |-> r.reached,
                          table |-> r.table, row |-> r.row,
                          prev_row |-> IF r.reached THEN seen.row ELSE <<>>,
                          diff_row |-> r.diff_row,
                          interval_diff_row |-> r.interval_diff_row,
                          log |-> r.log, ddl |-> r.ddl, raised |-> r.raised,
                          ret |-> r.ret, first |-> r.reached /\ seen.n = 0]
            /\ UNCHANGED r_config

RouterInit ==
    /\ \E setup \in RouterSetups : r_config = setup.config /\ m_patterns = setup.patterns
    /\ meta_tables = <<>>
    /\ db_tables = {}
    /\ r_tables = <<>>
    /\ last_readings = <<>>
    /\ db_rows = <<>>
    /\ r_calls = 0
    /\ r_last = NoRoute
    /\ r_seen = <<>>

RouterIdle ==
    /\ r_config = [has_mapper |-> FALSE, raw_sql |-> TRUE, route_by_topic |-> <<>>]
    /\ meta_tables = <<>>
    /\ db_tables = {}
    /\ r_tables = <<>>
    /\ last_readings = <<>>
    /\ db_rows = <<>>
    /\ r_calls = 0
    /\ r_last = NoRoute
    /\ r_seen = <<>>

RouterNext ==
    /\ r_calls < MaxRoutes
    /\ \E payload \in RoutePayloads, rule \in RouteRules,
          listing \in RouteListings(db_schema), db_ok \in BOOLEAN :
           Route(Gree1, payload, rule, listing, [stage \in DbStages |-> db_ok])

----------------------------------------------------------------------------
(* Bounded inputs of the functions without state                           *)

\* the internal column types of _get_data_columns and _get_table_schema
ColumnTypes == {"int", "float", "string", "json", "boolean"}

NoCall == [fn |-> "", args |-> <<>>, ret |-> <<>>]

FnIdle == fn_call = NoCall

\* one call of TableManager._types_compatible
TypesCompatible(existing_type, required_type) ==
    fn_call' = [fn |-> "_types_compatible", args |-> <<existing_type, required_type>>,
                ret |-> types_compatible(existing_type, required_type)]

\* the readings handed to the transformer: the integer part P0 and the
\* fractional part P1 as numbers or numerals, or no P1 at all
TfIntegers == {IntV(12345), IntV(987), IntV(100), IntV(12)}

TfFractions ==
    {IntV(81723), IntV(654), IntV(0), IntV(5), IntV(0 - 5), StrV(<<"0", "5">>),
     StrV(<<"x">>)}

TfData ==
    {[DeviceID |-> StrV(<<"m", "1">>), P0 |-> p0, P1 |-> p1] :
        p0 \in TfIntegers, p1 \in TfFractions}
    \cup {[DeviceID |-> StrV(<<"m", "1">>), P0 |-> p0] : p0 \in TfIntegers}

\* the readings that stay within 32 bits when scaled and then combined
TfSmallData == {data \in TfData : data["P0"] # IntV(12345)}

\* the configured action of the decimal combination
combine_P0_P1 ==
    [type |-> "combine_decimal", integer_field |-> "P0", fractional_field |-> "P1",
     target_field |-> "P0", remove_fractional |-> TRUE]

\* combine_decimal actions: P0 and P1 into P0 or into P, with and without
\* remove_fractional, and one with no target_field
CombineActions ==
    {[combine_P0_P1 EXCEPT !.target_field = target, !.remove_fractional = remove] :
        target \in {"P0", "P"}, remove \in BOOLEAN}
    \cup {[type |-> "combine_decimal", integer_field |-> "P0", fractional_field |-> "P1",
           target_field |-> "P0"],
          [type |-> "combine_decimal", integer_field |-> "P0", fractional_field |-> "P1"]}

TfTopics == {"Energy1", "Gree1"}

TfConditions ==
    { <<>>,
      [topic |-> "Energy1"],
      [fields |-> [P0 |-> IntV(100)]],
      [has_fields |-> {"P1"}],
      [topic |-> "Energy1", fields |-> [P1 |-> IntV(0)], has_fields |-> {"P0", "P1"}] }

TfActions ==
    { [type |-> "remove_field", field |-> "P1"],
      [type |-> "rename_field", from_field |-> "P0", to_field |-> "P1"],
      [type |-> "scale_value", field |-> "P0", scale_factor |-> 2],
      [type |-> "round_value", field |-> "P0"] }

\* P0 doubled for the readings that carry P1
scale_if_P1 ==
    [name |-> "scale", condition |-> [has_fields |-> {"P1"}],
     action |-> [type |-> "scale_value", field |-> "P0", scale_factor |-> 2]]

\* the transformations of the configuration: the decimal combination under
\* each condition, the other actions without a condition, and the
\* conditional scaling
Transformations ==
    {[name |-> "combine", condition |-> condition, action |-> combine_P0_P1] :
        condition \in TfConditions}
    \cup {[name |-> "other", action |-> action] : action \in TfActions}
    \cup {scale_if_P1}

MaxTransformations == 2

TransformationLists ==
    UNION {[1..n -> Transformations] : n \in 0..MaxTransformations}

\* one call of DataTransformer._combine_decimal_parts
CombineDecimalParts(data, action) ==
    fn_call' = [fn |-> "_combine_decimal_parts", args |-> <<data, action>>,
                ret |-> combine_decimal_parts(data, action)]

\* one call of DataTransformer.apply_transformations
ApplyTransformations(data, topic, transformations) ==
    fn_call' = [fn |-> "apply_transformations", args |-> <<data, topic, transformations>>,
                ret |-> apply_transformations(data, topic, transformations)]

\* the characters of the topics handed to the sanitisation: a capital, a
\* small letter, a digit, the underscore, and three characters outside
\* [a-z0-9_]
TopicChars == {"A", "b", "1", "_", "/", "-", " "}

MaxTopicLen == 4

Topics == UNION {[1..n -> TopicChars] : n \in 0..MaxTopicLen}

\* the sanitised topic as Router._safe_topic and as
\* TableManager._generate_table_name compute it, and each applied to its
\* own result
SafeTopic(topic) ==
    fn_call' = [fn |-> "_safe_topic", args |-> <<topic>>,
                ret |-> [router |-> safe_topic(topic),
                         table_manager |-> tm_safe_topic(topic),
                         router_again |-> safe_topic(safe_topic(topic)),
                         table_manager_again |-> tm_safe_topic(tm_safe_topic(topic))]]

T1200 == StrV(<<"1", "2", "0", "0", "0", "0">>)

\* payloads for the device id: the id under each of the keys and places
\* the router looks at, alone and in competition, and payloads without one
DevicePayloads ==
    { DictV([DeviceID |-> StrV(Dev103), P0 |-> IntV(5)]),
      DictV([DeviceID |-> ListV(<<IntV(103)>>), P0 |-> IntV(5)]),
      DictV([DeviceID |-> IntV(103), d |-> DictV([DeviceID |-> ListV(<<IntV(104)>>)])]),
      DictV([DeviceID |-> IntV(103), deviceID |-> IntV(77)]),
      DictV([d |-> DictV([DeviceID |-> ListV(<<IntV(103)>>), P0 |-> ListV(<<IntV(5)>>)]),
             ts |-> T1200]),
      DictV([d |-> DictV([DeviceID |-> IntV(103)]), ts |-> T1200]),
      DictV([d |-> DictV([DeviceID |-> ListV(<<>>)]), ts |-> T1200]),
      DictV([d |-> DictV([DeviceID |-> ListV(<<IntV(103)>>)]), deviceID |-> IntV(77)]),
      DictV([deviceID |-> IntV(77), P0 |-> IntV(5)]),
      DictV([Device |-> StrV(<<"7", "7">>), P0 |-> IntV(5)]),
      DictV([device_id |-> ListV(<<IntV(77)>>), P0 |-> IntV(5)]),
      DictV([Device |-> IntV(77), d |-> DictV([deviceID |-> ListV(<<IntV(78)>>)])]),
      DictV([d |-> DictV([deviceID |-> ListV(<<IntV(77)>>), P0 |-> ListV(<<IntV(5)>>)]),
             ts |-> T1200]),
      DictV([d |-> DictV([device |-> IntV(77)])]),
      DictV([d |-> DictV([P0 |-> ListV(<<IntV(5)>>)]), ts |-> T1200]),
      DictV([P0 |-> IntV(5)]),
      DictV([d |-> IntV(5), P0 |-> IntV(5)]),
      StrV(<<"x">>) }

\* one call of Router._extract_device_id, as route makes it: without the
\* row, or with the row built from the payload
ExtractDeviceId(payload, with_row) ==
    LET row_data == IF with_row THEN <<to_row_auto(Gree1, payload)>> ELSE <<>>
    IN  fn_call' = [fn |-> "_extract_device_id", args |-> <<payload, row_data>>,
                    ret |-> extract_device_id(payload, row_data)]

MaxLevels == 3

\* '/'.join(levels)
RECURSIVE join_slash(_)
join_slash(levels) ==
    IF Len(levels) = 1 THEN levels[1]
    ELSE levels[1] \o <<"/">> \o join_slash(Tail(levels))

\* the levels of a filter: two names, the empty level and the wildcards;
\* the levels of a topic: no wildcard
FilterLevels == {<<"a">>, <<"b">>, <<>>, <<"+">>, <<"#">>}
TopicLevels == {<<"a">>, <<"b">>, <<>>}

LevelLists(levels) == UNION {[1..n -> levels] : n \in 1..MaxLevels}

\* one call of _topic_filter_matches on the filter and the topic with the
\* given levels
TopicFilterMatches(filter_levels, topic_levels) ==
    fn_call' = [fn |-> "_topic_filter_matches", args |-> <<filter_levels, topic_levels>>,
                ret |-> topic_filter_matches(join_slash(filter_levels),
                                             join_slash(topic_levels))]

(* ConfigMigrator. Python dicts and lists are objects: the heap is a       *)
(* sequence of cells, a dict cell a function of its keys, a list cell the  *)
(* sequence of the ids of its items. The keys routes and device_ids hold   *)
(* the id of a list cell; every other key holds a value the migrator only  *)
(* reads.                                                                  *)

MaxRulesPerRoute == 2

\* the cells of a loaded configuration: the config dict is cell 1, its
\* routes list cell 2, then the route dicts, their device_ids lists and
\* the rule dicts
to_heap(config) ==
    LET n == IF "routes" \in DOMAIN config THEN Len(config["routes"]) ELSE 0
        has_rules(i) == "device_ids" \in DOMAIN config["routes"][i]
        rule_id(i, j) == 2 + 2 * n + MaxRulesPerRoute * (i - 1) + j
        cell(k) ==
            IF k = 1
            THEN [key \in DOMAIN config |-> IF key = "routes" THEN 2 ELSE config[key]]
            ELSE IF k = 2 THEN [i \in 1..n |-> 2 + i]
            ELSE IF k <= 2 + n
            THEN [key \in DOMAIN config["routes"][k - 2] |->
                     IF key = "device_ids" THEN k + n ELSE config["routes"][k - 2][key]]
            ELSE IF k <= 2 + 2 * n
            THEN IF has_rules(k - 2 - n)
                 THEN [j \in 1..Len(config["routes"][k - 2 - n]["device_ids"]) |->
                          rule_id(k - 2 - n, j)]
                 ELSE <<>>
            ELSE LET i == ((k - 3 - 2 * n) \div MaxRulesPerRoute) + 1
                     j == ((k - 3 - 2 * n) % MaxRulesPerRoute) + 1
                 IN  IF has_rules(i) /\ j <= Len(config["routes"][i]["device_ids"])
                     THEN config["routes"][i]["device_ids"][j]
                     ELSE <<>>
    IN  [k \in 1..(2 + 2 * n + MaxRulesPerRoute * n) |-> cell(k)]

\* the configuration a dict cell stands for
route_of(heap, id) ==
    [key \in DOMAIN heap[id] |->
        IF key = "device_ids"
        THEN [j \in DOMAIN heap[heap[id][key]] |-> heap[heap[heap[id][key]][j]]]
        ELSE heap[id][key]]
config_of(heap, id) ==
    [key \in DOMAIN heap[id] |->
        IF key = "routes"
        THEN [i \in DOMAIN heap[heap[id][key]] |-> route_of(heap, heap[heap[id][key]][i])]
        ELSE heap[id][key]]

\* dict.copy() that hands back the dict it was asked to copy
dict_copy_alias(heap, id) == [heap |-> heap, ret |-> id]

\* dict.copy(): a new dict with the same keys and the same values
dict_copy(heap, id) == [heap |-> Append(heap, heap[id]), ret |-> Len(heap) + 1]

\* d[key] = value and del d[key]
dict_set(d, key, value) == (key :> value) @@ d
dict_del(d, key) == [k \in DOMAIN d \ {key} |-> d[k]]

\* ConfigMigrator.migrate_device_config
migrate_device_config(heap, device_config) ==
    LET migrated == dict_copy(heap, device_config)
        table_override == heap[device_config]["table_override"]
        defaults == [auto_create |-> TRUE, version_on_conflict |-> TRUE]
        table_config == IF Len(table_override) # 0
                        THEN dict_set(defaults, "name", table_override[1])
                        ELSE defaults
    IN  IF "table_override" \in DOMAIN heap[device_config]
        THEN [migrated EXCEPT !.heap[migrated.ret] =
                 dict_del(dict_set(@, "table_config", table_config), "table_override")]
        ELSE migrated

\* lines 79-81: the loop over route['device_ids'], appending to the list
\* migrated_device_ids
RECURSIVE migrate_device_ids(_, _, _)
migrate_device_ids(heap, device_ids, migrated_device_ids) ==
    IF Len(device_ids) = 0 THEN heap
    ELSE CHOOSE after \in
            {migrate_device_ids(
                 [m.heap EXCEPT ![migrated_device_ids] = Append(@, m.ret)],
                 Tail(device_ids), migrated_device_ids) :
                m \in {migrate_device_config(heap, Head(device_ids))}} : TRUE

\* lines 74-85: one route
migrate_route(heap, a_route, migrated_routes) ==
    CHOOSE after \in
        {LET migrated_device_ids == Len(c.heap) + 1
             with_rules ==
                 [migrate_device_ids(Append(c.heap, <<>>), heap[heap[a_route]["device_ids"]],
                                     migrated_device_ids)
                    EXCEPT ![c.ret] = dict_set(@, "device_ids", migrated_device_ids)]
         IN  [(IF "device_ids" \in DOMAIN heap[a_route] THEN with_rules ELSE c.heap)
                EXCEPT ![migrated_routes] = Append(@, c.ret)] :
            c \in {dict_copy(heap, a_route)}} : TRUE

\* lines 73-85: the loop over config['routes']
RECURSIVE migrate_routes(_, _, _)
migrate_routes(heap, routes, migrated_routes) ==
    IF Len(routes) = 0 THEN heap
    ELSE CHOOSE after \in
            {migrate_routes(h, Tail(routes), migrated_routes) :
                h \in {migrate_route(heap, Head(routes), migrated_routes)}} : TRUE

\* ConfigMigrator.migrate_config: [heap, ret]
migrate_config(heap, config) ==
    CHOOSE after \in
        {LET migrated_routes == Len(c.heap) + 1
         IN  IF "routes" \in DOMAIN heap[config]
             THEN [heap |-> [migrate_routes(Append(c.heap, <<>>), heap[heap[config]["routes"]],
                                            migrated_routes)
                               EXCEPT ![c.ret] = dict_set(@, "routes", migrated_routes)],
                   ret |-> c.ret]
             ELSE c :
            c \in {dict_copy(heap, config)}} : TRUE

\* ConfigMigrator.count_migrations, on the configuration as a value
count_in_rules(device_ids) ==
    Cardinality({j \in DOMAIN device_ids : "table_override" \in DOMAIN device_ids[j]})
RECURSIVE count_in_routes(_)
count_in_routes(routes) ==
    IF Len(routes) = 0 THEN 0
    ELSE (IF "device_ids" \in DOMAIN Head(routes)
          THEN count_in_rules(Head(routes)["device_ids"]) ELSE 0)
         + count_in_routes(Tail(routes))
count_migrations(config) ==
    IF "routes" \in DOMAIN config THEN count_in_routes(config["routes"]) ELSE 0

gree1_4 == <<"g", "r", "e", "e", "1", "_", "4">>

\* device rules of a configuration file
RuleNamed == [pattern |-> <<"1", "0", "3">>, table_override |-> <<gree1_4>>]
RuleNull == [pattern |-> <<"*">>, table_override |-> <<>>]
RuleEmptyName == [pattern |-> <<"1", "0", "4">>, table_override |-> << <<>> >>]
RuleMigrated ==
    [pattern |-> <<"1", "0", "5">>,
     table_config |-> [name |-> gree1_4, auto_create |-> FALSE, version_on_conflict |-> TRUE]]
RulePlain == [pattern |-> <<"*">>, interval_difference |-> [enabled |-> TRUE]]
RuleBoth ==
    [pattern |-> <<"*">>, table_override |-> <<gree1_4>>,
     table_config |-> [name |-> devx_4, auto_create |-> FALSE, version_on_conflict |-> FALSE]]
DeviceRules == {RuleNamed, RuleNull, RuleEmptyName, RuleMigrated, RulePlain, RuleBoth}

RuleLists == {<<a>> : a \in DeviceRules} \cup {<<RuleNamed, RuleNull>>, <<RulePlain, RuleNamed>>}
MigratorRoutes ==
    {[topic |-> Gree1, broker |-> <<"b">>]}
    \cup {[topic |-> Gree1, broker |-> <<"b">>, device_ids |-> rules] : rules \in RuleLists}
MigratorConfigs ==
    {[mode |-> <<"prod">>]}
    \cup {[mode |-> <<"prod">>, routes |-> <<r>>] : r \in MigratorRoutes}
    \cup {[mode |-> <<"prod">>, routes |-> <<r, [topic |-> Gree1, broker |-> <<"b">>]>>] :
             r \in MigratorRoutes}
    \cup {[routes |-> <<[topic |-> Gree1, device_ids |-> <<RuleNamed, RuleMigrated>>],
                        [topic |-> DevX, device_ids |-> <<RuleNull>>]>>]}

\* one call of migrate_config on a loaded configuration, and
\* count_migrations of what it returns
MigrateConfig(config) ==
    \E r \in {migrate_config(to_heap(config), 1)} :
        fn_call' = [fn |-> "migrate_config", args |-> <<config>>,
                    ret |-> [migrated |-> config_of(r.heap, r.ret),
                             input |-> config_of(r.heap, 1),
                             count |-> count_migrations(config_of(r.heap, r.ret))]]

\* get_or_create_table_name, on a database without tables, for a rule in
\* the legacy form and for the table_config migrate_device_config gives it
ResolveLegacyAndMigrated(device_config, message_structure) ==
    \E m \in {migrate_device_config(<<device_config>>, 1)} :
        fn_call' = [fn |-> "get_or_create_table_name",
                    args |-> <<device_config, message_structure>>,
                    ret |-> [legacy |-> get_or_create_table_name(
                                            <<>>, <<>>, <<>>, device_config, Gree1,
                                            device_config.pattern, message_structure,
                                            TRUE).ret,
                             migrated |-> get_or_create_table_name(
                                            <<>>, <<>>, <<>>, m.heap[m.ret]["table_config"],
                                            Gree1, device_config.pattern,
                                            message_structure, TRUE).ret]]

\* the transformation reaches its result_data = data.copy(): every path of
\* _combine_decimal_parts, _scale_value, _rename_field and _remove_field
\* that does not return data itself
makes_copy(data, transformation) ==
    LET action == ConfigGet(transformation, "action", <<>>)
        type == ConfigGet(action, "type", "")
        field(name) == ConfigGet(action, name, "")
    IN  CASE type = "combine_decimal" ->
                /\ "" \notin {field("integer_field"), field("fractional_field"),
                              field("target_field")}
                /\ {field("integer_field"), field("fractional_field")} \subseteq DOMAIN data
                /\ Len(py_int(data[field("integer_field")])) = 1
                /\ Len(py_int(data[field("fractional_field")])) = 1
          [] type = "scale_value" ->
                /\ field("field") \in DOMAIN data
                /\ \/ data[field("field")].ty = "float"
                   \/ Len(try_convert_to_numeric(data[field("field")])) = 1
          [] type = "rename_field" ->
                /\ "" \notin {field("from_field"), field("to_field")}
                /\ field("from_field") \in DOMAIN data
          [] type = "remove_field" -> field("field") \in DOMAIN data
          [] OTHER -> FALSE

\* DataTransformer._apply_transformation on the dict object data: the
\* object returned, and the heap with the writes made to the copy
apply_transformation_to(heap, data, transformation) ==
    IF ~makes_copy(heap[data], transformation) THEN [heap |-> heap, ret |-> data]
    ELSE CHOOSE after \in
            {[heap |-> [result_data.heap EXCEPT ![result_data.ret] =
                           apply_transformation(@, transformation)],
              ret |-> result_data.ret] :
                result_data \in {dict_copy(heap, data)}} : TRUE

\* the loop of apply_transformations on the dict object result_data
RECURSIVE apply_each_to(_, _, _, _)
apply_each_to(heap, result_data, topic, transformations) ==
    IF Len(transformations) = 0 THEN [heap |-> heap, ret |-> result_data]
    ELSE IF check_condition(heap[result_data], topic,
                            ConfigGet(transformations[1], "condition", <<>>))
         THEN CHOOSE after \in
                 {apply_each_to(applied.heap, applied.ret, topic, Tail(transformations)) :
                     applied \in {apply_transformation_to(heap, result_data,
                                                          transformations[1])}} : TRUE
    ELSE apply_each_to(heap, result_data, topic, Tail(transformations))

\* DataTransformer.apply_transformations on the dict object data
apply_transformations_to(heap, data, topic, transformations) ==
    IF Len(transformations) = 0 THEN [heap |-> heap, ret |-> data]
    ELSE CHOOSE after \in
            {apply_each_to(result_data.heap, result_data.ret, topic, transformations) :
                result_data \in {dict_copy(heap, data)}} : TRUE

\* one call of apply_transformations on the caller's dict, the only object
\* of the heap
ApplyToCallersMap(data, topic, transformations) ==
    \E r \in {apply_transformations_to(<<data>>, 1, topic, transformations)} :
        fn_call' = [fn |-> "apply_transformations(caller's map)",
                    args |-> <<data, topic, transformations>>,
                    after |-> r.heap[1], same_object |-> r.ret = 1,
                    copies |-> Len(r.heap) - 1, ret |-> r.heap[r.ret]]

\* field values of every JSON kind
ColumnValues ==
    {IntV(5), FloatV(2), StrV(<<"x">>), BoolV(TRUE), None, ListV(<<IntV(1), IntV(2)>>),
     ListV(<<>>), ListV(<<DictV([a |-> IntV(1)])>>), DictV([a |-> IntV(1)])}

\* payloads: flat with one field of each kind, flat with a field named as a
\* metadata column, enveloped under d with and without ts, and no object
ColumnPayloads ==
    {DictV([DeviceID |-> StrV(Dev103), P0 |-> v]) : v \in ColumnValues}
    \cup {DictV([id |-> IntV(7), P0 |-> IntV(5)]), DictV([Topic |-> StrV(<<"t">>), P0 |-> IntV(5)])}
    \cup {DictV([d |-> DictV([P0 |-> v]), ts |-> StrV(<<"t">>)]) : v \in ColumnValues}
    \cup {DictV([d |-> DictV([P0 |-> ListV(<<v>>)])]) : v \in {IntV(5), BoolV(TRUE), None}}
    \cup {StrV(<<"x">>), ListV(<<IntV(1)>>)}

\* the columns both derivations give one payload
ColumnsOf(topic, payload) ==
    fn_call' = [fn |-> "columns", args |-> <<topic, payload>>,
                auto |-> derive_columns_auto(topic, payload),
                data |-> get_data_columns(payload), ret |-> <<>>]

\* each behaviour records one call
FnNext ==
    /\ fn_call.fn = ""
    /\ \/ \E existing_type \in ColumnTypes, required_type \in ColumnTypes :
             TypesCompatible(existing_type, required_type)
       \/ \E data \in TfData, action \in CombineActions :
             CombineDecimalParts(data, action)
       \/ \E data \in TfSmallData, topic \in TfTopics, transformations \in TransformationLists :
             ApplyTransformations(data, topic, transformations)
       \/ \E data \in TfSmallData, topic \in TfTopics, transformations \in TransformationLists :
             ApplyToCallersMap(data, topic, transformations)
       \/ \E payload \in ColumnPayloads : ColumnsOf(Gree1, payload)
       \/ \E topic \in Topics : SafeTopic(topic)
       \/ \E payload \in DevicePayloads, with_row \in BOOLEAN :
             ExtractDeviceId(payload, with_row)
       \/ \E filter_levels \in LevelLists(FilterLevels), topic_levels \in LevelLists(TopicLevels) :
             TopicFilterMatches(filter_levels, topic_levels)
       \/ \E config \in MigratorConfigs : MigrateConfig(config)
       \/ \E device_config \in {r \in DeviceRules : "table_override" \in DOMAIN r},
             message_structure \in {TempReading(FloatV(20)), SixFields} :
             ResolveLegacyAndMigrated(device_config, message_structure)

----------------------------------------------------------------------------
(* MQTTHub and SingleClient                                                *)

\* conn.get('port', 8883) and qos: int = 1
DefaultPort == 8883
DefaultQos == 1

\* the defaults of MQTTHub({})
HubDefaults == [k \in {} |-> None]

\* MQTTHub._merge: the defaults, overridden by the overrides that are not None
hub_merge(defaults, overrides) ==
    LET kept == {k \in DOMAIN overrides : overrides[k].ty # "none"}
    IN  [k \in DOMAIN defaults \cup kept |->
            IF k \in kept THEN overrides[k] ELSE defaults[k]]

\* conn.get('port', 8883)
conn_port(conn) == IF "port" \in DOMAIN conn THEN conn.port ELSE IntV(DefaultPort)

\* MQTTHub._key; the ports of the model are numerals, int() does not raise
hub_key(conn) ==
    <<Get(conn, "broker"), py_int(conn_port(conn))[1], Get(conn, "username"),
      Get(conn, "password"), Get(conn, "ca_cert")>>

\* a lookup that finds no client
clients_get_nothing(clients, key) == <<>>

\* self._clients.get(key): an Optional
clients_get(clients, key) == IF key \in DOMAIN clients THEN <<clients[key]>> ELSE <<>>

\* SingleClient.__init__ raises FileNotFoundError: a CA certificate is
\* configured and there is no file at its path
ca_cert_missing(conn, ca_exists) == Truthy(Get(conn, "ca_cert")) /\ ~ca_exists

\* SingleClient.__init__; cid stands for the identity of the object
SingleClient(conn, cid) ==
    [cid |-> cid, conn |-> conn, handlers |-> <<>>, started |-> FALSE]

\* dev of SingleClient.add_sub
bound_device(device_id) ==
    IF device_id.ty = "none" \/ (device_id.ty = "str" /\ device_id.v = <<"*">>) THEN None
    ELSE StrV(PyStr(device_id))

\* SingleClient.add_sub
client_add_sub(client, topic, device_id, handler, qos) ==
    [client EXCEPT !.handlers =
        Append(@, [topic |-> topic, dev |-> bound_device(device_id),
                   handler |-> handler, q |-> qos])]

\* SingleClient.start: connect raises when the broker cannot be reached
client_start(client, connect_ok) ==
    IF client.started THEN [client |-> client, raised |-> ""]
    ELSE IF ~connect_ok THEN [client |-> client, raised |-> "ConnectError"]
    ELSE [client |-> [client EXCEPT !.started = TRUE], raised |-> ""]

\* SingleClient.clear
client_clear(client) == [client EXCEPT !.handlers = <<>>]

\* incoming of _on_message
incoming_device(data) ==
    IF data.ty = "dict" THEN StrV(PyStr(Get(data.v, "DeviceID"))) ELSE None

\* the matches of _on_message, in the order of registration
RECURSIVE message_matches(_, _, _)
message_matches(handlers, topic, data) ==
    IF Len(handlers) = 0 THEN <<>>
    ELSE LET h == handlers[1]
             rest == message_matches(Tail(handlers), topic, data)
         IN  IF /\ topic_filter_matches(h.topic, topic)
                /\ \/ h.dev.ty = "none"
                   \/ \E incoming \in {incoming_device(data)} :
                         incoming.ty = "str" /\ incoming.v = h.dev.v
             THEN <<[handler |-> h.handler, dev |-> h.dev]>> \o rest
             ELSE rest

\* all the matches, wildcard or not
keep_all_matches(matches) == matches

\* [(h, d) for (h, d) in matches if d is not None]
RECURSIVE specific_matches(_)
specific_matches(matches) ==
    IF Len(matches) = 0 THEN <<>>
    ELSE IF matches[1].dev.ty = "none" THEN specific_matches(Tail(matches))
    ELSE <<matches[1]>> \o specific_matches(Tail(matches))

\* the matches that are submitted: without the wildcard ones when a handler
\* of a specific device matched
drop_wildcards(matches) ==
    IF \E i \in 1..Len(matches) : matches[i].dev.ty # "none"
    THEN specific_matches(matches)
    ELSE matches

\* SingleClient._on_message: the (handler, device) pairs submitted
on_message(handlers, topic, data) ==
    drop_wildcards(message_matches(handlers, topic, data))

\* MQTTHub.add_sub, under the hub's lock
hub_add_sub(clients, topic, device_id, handler, conn_overrides, ca_exists, connect_ok) ==
    LET conn == hub_merge(HubDefaults, conn_overrides)
        key == hub_key(conn)
        before == clients_get(clients, key)
    IN  IF before = <<>> /\ ca_cert_missing(conn, ca_exists)
        THEN [clients |-> clients, conn |-> conn, key |-> key,
              raised |-> "FileNotFoundError"]
        ELSE LET client == IF before = <<>> THEN SingleClient(conn, handler)
                           ELSE before[1]
                 started == client_start(client_add_sub(client, topic, device_id,
                                                        handler, DefaultQos),
                                         connect_ok)
             IN  [clients |-> [k \in DOMAIN clients \cup {key} |->
                                  IF k = key THEN started.client ELSE clients[k]],
                  conn |-> conn, key |-> key, raised |-> started.raised]

----------------------------------------------------------------------------
(* The hub: bounded inputs and operations                                  *)

MaxAddSubs == 2

\* topic filters of the routes and topics of the messages
a_plus == <<"a", "/", "+">>
a_b == <<"a", "/", "b">>
a_c == <<"a", "/", "c">>
HubFilters == {a_plus, a_b}
HubTopics == {a_b, a_c}

\* the connection build_subs makes for a route of the server
ConnBase ==
    [broker |-> StrV(<<"b", "1">>), port |-> IntV(DefaultPort),
     username |-> StrV(<<"u">>), password |-> StrV(<<"p">>), ca_cert |-> None,
     client_id_prefix |-> StrV(<<"U">>), keepalive |-> IntV(60)]

\* connections: the server's, the same with a null port, on another port,
\* and with a CA certificate
ConnNullPort == [ConnBase EXCEPT !.port = None]
ConnPort1883 == [ConnBase EXCEPT !.port = IntV(1883)]
ConnTls == [ConnBase EXCEPT !.ca_cert = StrV(<<"c", "a">>)]
HubConns == {ConnBase, ConnNullPort, ConnPort1883, ConnTls}

\* device_id arguments of add_sub: the wildcard in both its forms, a device
HubDeviceIds == {None, StrV(<<"*">>), IntV(103)}

\* decoded payloads: of the bound device, of another device, and a payload
\* that is no JSON object
HubData ==
    { DictV([DeviceID |-> IntV(103), P0 |-> IntV(5)]),
      DictV([DeviceID |-> StrV(Dev104), P0 |-> IntV(5)]),
      StrV(<<"x">>) }

\* MQTTHub.__init__
HubInit ==
    /\ hub_clients = [k \in {} |-> None]
    /\ hub_calls = 0
    /\ hub_seen = {}
    /\ hub_last = [op |-> ""]

\* MQTTHub.add_sub with a new handler; the environment decides whether the
\* CA file exists and whether the broker can be reached
AddSub(topic, device_id, conn_overrides, ca_exists, connect_ok) ==
    /\ hub_calls < MaxAddSubs
    /\ \E r \in {hub_add_sub(hub_clients, topic, device_id, hub_calls + 1,
                             conn_overrides, ca_exists, connect_ok)} :
          /\ hub_clients' = r.clients
          /\ hub_seen' = hub_seen \cup {r.key}
          /\ hub_last' = [op |-> "add_sub", conn |-> r.conn, key |-> r.key,
                          seen |-> r.key \in hub_seen,
                          before |-> IF r.key \in DOMAIN hub_clients
                                     THEN <<hub_clients[r.key]>> ELSE <<>>,
                          raised |-> r.raised,
                          topic |-> topic, dev |-> bound_device(device_id),
                          handler |-> hub_calls + 1]
    /\ hub_calls' = hub_calls + 1

\* MQTTHub.clear_all
ClearAll ==
    /\ hub_clients' = [k \in DOMAIN hub_clients |-> client_clear(hub_clients[k])]
    /\ hub_last' = [op |-> "clear_all"]
    /\ UNCHANGED <<hub_calls, hub_seen>>

\* SingleClient._on_message of a started client, for one decoded message
OnMessage(key, topic, data) ==
    /\ hub_clients[key].started
    /\ hub_last' = [op |-> "_on_message", key |-> key, topic |-> topic, data |-> data,
                    handlers |-> hub_clients[key].handlers,
                    submitted |-> on_message(hub_clients[key].handlers, topic, data)]
    /\ UNCHANGED <<hub_clients, hub_calls, hub_seen>>

HubNext ==
    \/ \E topic \in HubFilters, device_id \in HubDeviceIds, conn_overrides \in HubConns,
          ca_exists \in BOOLEAN, connect_ok \in BOOLEAN :
          AddSub(topic, device_id, conn_overrides, ca_exists, connect_ok)
    \/ ClearAll
    \/ \E key \in DOMAIN hub_clients, topic \in HubTopics, data \in HubData :
          OnMessage(key, topic, data)

----------------------------------------------------------------------------
(* SingleClient and its session with the broker                            *)

\* client.subscribe((topic, q)) on an established session
broker_subscribe(broker, topic, q) ==
    [f \in DOMAIN broker \cup {topic} |-> IF f = topic THEN q ELSE broker[f]]

\* client.unsubscribe(t) on an established session
broker_unsubscribe(broker, topic) == [f \in DOMAIN broker \ {topic} |-> broker[f]]

\* an _on_connect that subscribes to nothing
resubscribe_nothing(handlers, broker) == broker

\* the loop of _on_connect: subscribe to (t, q) of every handler, in order
RECURSIVE resubscribe(_, _)
resubscribe(handlers, broker) ==
    IF Len(handlers) = 0 THEN broker
    ELSE resubscribe(Tail(handlers),
                     broker_subscribe(broker, handlers[1].topic, handlers[1].q))

\* the loop of clear: unsubscribe from t of every handler
RECURSIVE unsubscribe_handlers(_, _)
unsubscribe_handlers(handlers, broker) ==
    IF Len(handlers) = 0 THEN broker
    ELSE unsubscribe_handlers(Tail(handlers), broker_unsubscribe(broker, handlers[1].topic))

\* a session without subscriptions: mqtt.Client(client_id=cid) asks for a
\* clean session
NoSubscriptions == [f \in {} |-> 0]

MaxClientAdds == 2

\* qos arguments of add_sub
ScQos == {0, 1}

\* SingleClient.__init__
ScInit ==
    /\ sc_client = SingleClient(hub_merge(HubDefaults, ConnBase), 1)
    /\ sc_connected = FALSE
    /\ sc_broker = NoSubscriptions
    /\ sc_pending = <<>>
    /\ sc_adds = 0
    /\ sc_last = [op |-> ""]

\* a clear() that ran while matches were waiting to be submitted
pending_cleared(pending) ==
    IF pending = <<>> THEN pending ELSE <<[pending[1] EXCEPT !.cleared = TRUE]>>

\* SingleClient.add_sub: without a session paho's subscribe returns
\* MQTT_ERR_NO_CONN and sends nothing
ScAddSub(topic, device_id, qos) ==
    /\ sc_adds < MaxClientAdds
    /\ sc_adds' = sc_adds + 1
    /\ sc_client' = client_add_sub(sc_client, topic, device_id, sc_adds + 1, qos)
    /\ sc_broker' = IF sc_connected THEN broker_subscribe(sc_broker, topic, qos)
                    ELSE sc_broker
    /\ UNCHANGED <<sc_connected, sc_pending, sc_last>>

\* SingleClient.start
ScStart(connect_ok) ==
    /\ ~sc_client.started
    /\ sc_client' = client_start(sc_client, connect_ok).client
    /\ UNCHANGED <<sc_connected, sc_broker, sc_pending, sc_adds, sc_last>>

\* SingleClient.clear, called from the thread that reloads the configuration
ScClear ==
    /\ sc_client' = client_clear(sc_client)
    /\ sc_broker' = IF sc_connected THEN unsubscribe_handlers(sc_client.handlers, sc_broker)
                    ELSE sc_broker
    /\ sc_pending' = pending_cleared(sc_pending)
    /\ UNCHANGED <<sc_connected, sc_adds, sc_last>>

\* SingleClient._on_connect: the network loop of a started client has
\* (re)connected
ScOnConnect ==
    /\ sc_client.started
    /\ ~sc_connected
    /\ sc_connected' = TRUE
    /\ sc_broker' = resubscribe(sc_client.handlers, sc_broker)
    /\ sc_last' = [op |-> "_on_connect", after |-> sc_last.op]
    /\ UNCHANGED <<sc_client, sc_pending, sc_adds>>

\* the connection is lost: the broker discards the clean session
ScConnectionLost ==
    /\ sc_connected
    /\ sc_connected' = FALSE
    /\ sc_broker' = NoSubscriptions
    /\ sc_last' = [op |-> "connection_lost"]
    /\ UNCHANGED <<sc_client, sc_pending, sc_adds>>

\* SingleClient._on_message up to the release of the lock: the broker
\* delivers a message of a subscribed topic and the matches are collected
ScCollect(topic, data) ==
    /\ sc_connected
    /\ sc_pending = <<>>
    /\ \E f \in DOMAIN sc_broker : topic_filter_matches(f, topic)
    /\ sc_pending' = <<[topic |-> topic, data |-> data, handlers |-> sc_client.handlers,
                        matches |-> message_matches(sc_client.handlers, topic, data),
                        cleared |-> FALSE]>>
    /\ UNCHANGED <<sc_client, sc_connected, sc_broker, sc_adds, sc_last>>

\* the rest of _on_message: the matches are submitted to the executor
ScSubmit ==
    /\ sc_pending # <<>>
    /\ sc_last' = [op |-> "submit", topic |-> sc_pending[1].topic,
                   handlers |-> sc_pending[1].handlers,
                   cleared |-> sc_pending[1].cleared,
                   registered |-> sc_client.handlers,
                   submitted |-> drop_wildcards(sc_pending[1].matches)]
    /\ sc_pending' = <<>>
    /\ UNCHANGED <<sc_client, sc_connected, sc_broker, sc_adds>>

ScNext ==
    \/ \E topic \in HubFilters, device_id \in {None, IntV(103)}, qos \in ScQos :
          ScAddSub(topic, device_id, qos)
    \/ \E connect_ok \in BOOLEAN : ScStart(connect_ok)
    \/ ScClear
    \/ ScOnConnect
    \/ ScConnectionLost
    \/ \E topic \in HubTopics, data \in HubData : ScCollect(topic, data)
    \/ ScSubmit

----------------------------------------------------------------------------
(* build_subs                                                              *)

\* keepalive of a server that configures none
DefaultKeepalive == 60

\* dict.get(key, default)
get_or(d, key, default) == IF key \in DOMAIN d THEN d[key] ELSE default

\* the conn build_subs makes: route-level keys override the server's
route_conn(r, server_config) ==
    [broker |-> get_or(r, "broker", Get(server_config, "broker")),
     port |-> get_or(r, "port", get_or(server_config, "port", IntV(DefaultPort))),
     username |-> get_or(r, "username", Get(server_config, "username")),
     password |-> get_or(r, "password", Get(server_config, "password")),
     ca_cert |-> get_or(r, "ca_cert", Get(server_config, "ca_cert")),
     client_id_prefix |-> get_or(server_config, "client_id_prefix", StrV(<<"U">>)),
     keepalive |-> get_or(server_config, "keepalive", IntV(DefaultKeepalive))]

\* the subscriptions of a route: (device_id argument, rule of the handler)
\* for '*' when the route has no rules, else for each rule in order
route_subscriptions(r) ==
    LET rules == get_or(r, "device_ids", ListV(<<>>)).v
    IN  IF Len(rules) = 0 THEN <<[device_id |-> StrV(<<"*">>), rule |-> None]>>
        ELSE [i \in 1..Len(rules) |->
                 [device_id |-> IF get_or(rules[i].v, "pattern", StrV(<<"*">>)) = StrV(<<"*">>)
                                THEN None ELSE rules[i].v.pattern,
                  rule |-> rules[i]]]

\* the exception of an add_sub ends the loop over the rules of the route
stop_installing(raised) == raised # ""

\* the add_sub calls of one route, up to the first that raises; s holds
\* the clients, the number of add_sub calls made and what was raised
RECURSIVE install_subscriptions(_, _, _, _, _, _)
install_subscriptions(s, topic, subscriptions, conn, allow_persist, env) ==
    IF Len(subscriptions) = 0 THEN s
    ELSE CHOOSE after \in
            {IF stop_installing(added.raised)
             THEN [clients |-> added.clients, n |-> s.n + 1, raised |-> added.raised]
             ELSE install_subscriptions(
                      [clients |-> added.clients, n |-> s.n + 1, raised |-> ""],
                      topic, Tail(subscriptions), conn, allow_persist, env) :
                added \in {hub_add_sub(s.clients, topic, subscriptions[1].device_id,
                                       [id |-> <<env.build, s.n + 1>>,
                                        rule |-> subscriptions[1].rule,
                                        allow_persist |-> allow_persist],
                                       conn, env.ca_exists, env.connect_ok)}} : TRUE

\* the body of the loop of build_subs for one route: the clients after
\* it and how the route ended
install_route(s, r, mqtt_servers, env) ==
    IF ~Truthy(Get(r, "mqtt_server")) THEN [s EXCEPT !.raised = "no mqtt_server"]
    ELSE IF r.mqtt_server.v \notin DOMAIN mqtt_servers
    THEN [s EXCEPT !.raised = "unknown mqtt_server"]
    ELSE CHOOSE after \in
            {IF ~Truthy(conn.broker) THEN [s EXCEPT !.raised = "no broker"]
             ELSE install_subscriptions([s EXCEPT !.raised = ""], r.topic.v,
                                        route_subscriptions(r), conn,
                                        Truthy(get_or(r, "auto_discover", BoolV(FALSE))),
                                        env) :
                conn \in {route_conn(r, mqtt_servers[r.mqtt_server.v])}} : TRUE

\* the loop of build_subs over the routes; the outcomes of the routes are
\* collected in s.log
RECURSIVE install_routes(_, _, _, _)
install_routes(s, routes, mqtt_servers, env) ==
    IF Len(routes) = 0 THEN s
    ELSE CHOOSE after \in
            {install_routes([clients |-> done.clients, n |-> done.n, raised |-> "",
                             log |-> Append(s.log, done.raised)],
                            Tail(routes), mqtt_servers, env) :
                done \in {install_route([clients |-> s.clients, n |-> s.n, raised |-> ""],
                                        routes[1], mqtt_servers, env)}} : TRUE

\* build_subs: clear_all, then the routes in order
build_subs(clients, cfg, env) ==
    install_routes([clients |-> [k \in DOMAIN clients |-> client_clear(clients[k])],
                    n |-> 0, raised |-> "", log |-> <<>>],
                   get_or(cfg, "routes", <<>>), get_or(cfg, "mqtt_servers", <<>>), env)

MaxBuilds == 3

\* the mqtt_servers of the configurations: a plain server, an entry
\* without a broker, and a server with a CA certificate
Server1 == <<"s", "1">>
Server2 == <<"s", "2">>
Server3 == <<"s", "3">>
BootServers ==
    (Server1 :> [broker |-> StrV(<<"b", "1">>), port |-> IntV(DefaultPort),
                 username |-> StrV(<<"u">>), password |-> StrV(<<"p">>)])
    @@ (Server2 :> [port |-> IntV(DefaultPort)])
    @@ (Server3 :> [broker |-> StrV(<<"b", "1">>), port |-> IntV(DefaultPort),
                    username |-> StrV(<<"u">>), password |-> StrV(<<"p">>),
                    ca_cert |-> StrV(<<"c", "a">>)])

\* device rules
Rule103 == DictV([pattern |-> StrV(Dev103)])
Rule104 == DictV([pattern |-> StrV(Dev104)])
RuleAny == DictV([pattern |-> StrV(<<"*">>)])

\* routes: without rules, with rules, without a server, with an unknown
\* server, with a server that names no broker, on the TLS server, and
\* with a port of its own
RtAll == [topic |-> StrV(a_b), mqtt_server |-> StrV(Server1)]
RtRules ==
    [topic |-> StrV(a_plus), mqtt_server |-> StrV(Server1),
     device_ids |-> ListV(<<Rule103, RuleAny>>), auto_discover |-> BoolV(TRUE)]
RtNoServer == [topic |-> StrV(a_b)]
RtUnknown == [topic |-> StrV(a_b), mqtt_server |-> StrV(<<"s", "9">>)]
RtNoBroker == [topic |-> StrV(a_b), mqtt_server |-> StrV(Server2)]
RtTls ==
    [topic |-> StrV(a_b), mqtt_server |-> StrV(Server3),
     device_ids |-> ListV(<<Rule103, Rule104>>)]
RtPort == [topic |-> StrV(a_c), mqtt_server |-> StrV(Server1), port |-> IntV(1883)]

\* the configurations the loader hands to build_subs
BootCfgs ==
    { [routes |-> <<RtAll>>, mqtt_servers |-> BootServers],
      [routes |-> <<RtRules, RtAll>>, mqtt_servers |-> BootServers],
      [routes |-> <<RtNoServer, RtUnknown, RtNoBroker, RtAll>>,
       mqtt_servers |-> BootServers],
      [routes |-> <<RtTls, RtRules>>, mqtt_servers |-> BootServers],
      [routes |-> <<RtRules, RtPort>>, mqtt_servers |-> BootServers],
      [routes |-> <<RtAll>>],
      [mqtt_servers |-> BootServers] }

\* build_subs(hub, router, cfg, counters) at boot or on a change of the
\* configuration; during the build the CA file exists or not and the
\* brokers accept connections or not
BuildSubs(cfg, ca_exists, connect_ok) ==
    /\ hub_calls < MaxBuilds
    /\ \E built \in {build_subs(hub_clients, cfg,
                                [build |-> hub_calls + 1, ca_exists |-> ca_exists,
                                 connect_ok |-> connect_ok])} :
          /\ hub_clients' = built.clients
          /\ hub_last' = [op |-> "build_subs", cfg |-> cfg, log |-> built.log,
                          started |-> {k \in DOMAIN hub_clients : hub_clients[k].started}]
    /\ hub_calls' = hub_calls + 1
    /\ UNCHANGED hub_seen

BootNext ==
    \E cfg \in BootCfgs, ca_exists \in BOOLEAN, connect_ok \in BOOLEAN :
        BuildSubs(cfg, ca_exists, connect_ok)

----------------------------------------------------------------------------
(* ConfigLoader                                                            *)

\* yaml.safe_load of the file's text: the document, or a YAMLError
safe_load(text) ==
    CASE text = "malformed" -> [raised |-> "YAMLError"]
      [] text = "" -> [raised |-> "", data |-> None]
      [] text = "list" -> [raised |-> "", data |-> ListV(<<IntV(1)>>)]
      [] text = "scalar" -> [raised |-> "", data |-> StrV(<<"x">>)]
      [] text = "routes: A" -> [raised |-> "", data |-> DictV([routes |-> StrV(<<"A">>)])]
      [] OTHER -> [raised |-> "", data |-> DictV([routes |-> StrV(<<"B">>)])]

\* a load that has emptied the snapshot when the file fails
load_forgetting(loader, file) ==
    IF ~file.exists
    THEN [raised |-> "FileNotFoundError", data |-> None, mtime |-> loader.mtime]
    ELSE IF safe_load(file.text).raised # ""
    THEN [raised |-> safe_load(file.text).raised, data |-> None, mtime |-> loader.mtime]
    ELSE [raised |-> "",
          data |-> IF Truthy(safe_load(file.text).data) THEN safe_load(file.text).data
                   ELSE DictV([k \in {} |-> None]),
          mtime |-> file.mtime]

\* ConfigLoader.load: data and mtime after it, and what it raised
load(loader, file) ==
    IF ~file.exists
    THEN [raised |-> "FileNotFoundError", data |-> loader.data, mtime |-> loader.mtime]
    ELSE LET parsed == safe_load(file.text)
         IN  IF parsed.raised # ""
             THEN [raised |-> parsed.raised, data |-> loader.data, mtime |-> loader.mtime]
             ELSE [raised |-> "",
                   data |-> IF Truthy(parsed.data) THEN parsed.data
                            ELSE DictV([k \in {} |-> None]),
                   mtime |-> file.mtime]

\* ConfigLoader.get: self._data.copy(), an Optional; a str has no copy()
loader_get(data) == IF data.ty \in {"dict", "list"} THEN <<data>> ELSE <<>>

\* a loop over the callbacks that ends with the first exception
notify_until_raise(callbacks, data, raising) ==
    [i \in 1..(IF \E j \in 1..Len(callbacks) : callbacks[j] \in raising
               THEN CHOOSE j \in 1..Len(callbacks) :
                        /\ callbacks[j] \in raising
                        /\ \A k \in 1..(j - 1) : callbacks[k] \notin raising
               ELSE Len(callbacks)) |->
        [cb |-> callbacks[i], arg |-> data, raised |-> callbacks[i] \in raising]]

\* the loop over the callbacks of _watch, each in its own try: the calls
\* made, with their argument and whether the callback raised
notify(callbacks, data, raising) ==
    IF loader_get(data) = <<>> THEN <<>>
    ELSE [i \in 1..Len(callbacks) |->
             [cb |-> callbacks[i], arg |-> loader_get(data)[1],
              raised |-> callbacks[i] \in raising]]

\* a watcher whose thread ends with the exception
watching_until_raise(raised) == raised = ""

\* except Exception around the iteration: the loop goes on
still_watching(raised) == TRUE

\* one iteration of the loop of _watch, after the sleep
watch_once(loader, file, callbacks, raising) ==
    IF ~file.exists
    THEN [data |-> loader.data, mtime |-> loader.mtime, raised |-> "FileNotFoundError",
          watching |-> still_watching("FileNotFoundError"),
          reloaded |-> FALSE, calls |-> <<>>]
    ELSE IF file.mtime = loader.mtime
    THEN [data |-> loader.data, mtime |-> loader.mtime, raised |-> "",
          watching |-> TRUE, reloaded |-> FALSE, calls |-> <<>>]
    ELSE CHOOSE after \in
            {[data |-> loaded.data, mtime |-> loaded.mtime, raised |-> loaded.raised,
              watching |-> still_watching(loaded.raised), reloaded |-> TRUE,
              calls |-> IF loaded.raised # "" THEN <<>>
                        ELSE notify(callbacks, loaded.data, raising)] :
                loaded \in {load(loader, file)}} : TRUE

MaxWrites == 3

\* the texts the file can hold
FileTexts == {"routes: A", "routes: B", "", "list", "scalar", "malformed"}

\* the subscribers, in the order of on_change
Callbacks == <<"on_change", "other">>

\* nothing is watched
LoaderIdle ==
    /\ cl_file = [exists |-> FALSE, text |-> "", mtime |-> 0]
    /\ cl_data = None
    /\ cl_mtime = 0
    /\ cl_writes = 0
    /\ cl_last = [op |-> "", watching |-> FALSE]

\* ConfigLoader.__init__ on a file that loads
LoaderInit ==
    /\ cl_file \in {[exists |-> TRUE, text |-> text, mtime |-> 1] :
                       text \in {"routes: A", ""}}
    /\ cl_data = load([data |-> None, mtime |-> 0], cl_file).data
    /\ cl_mtime = 1
    /\ cl_writes = 0
    /\ cl_last = [op |-> "", watching |-> TRUE]

\* the file is written: new text and a later modification time
WriteFile(text) ==
    /\ cl_writes < MaxWrites
    /\ cl_writes' = cl_writes + 1
    /\ cl_file' = [exists |-> TRUE, text |-> text, mtime |-> cl_file.mtime + 1]
    /\ UNCHANGED <<cl_data, cl_mtime, cl_last>>

\* the file is removed
RemoveFile ==
    /\ cl_file.exists
    /\ cl_writes < MaxWrites
    /\ cl_writes' = cl_writes + 1
    /\ cl_file' = [cl_file EXCEPT !.exists = FALSE]
    /\ UNCHANGED <<cl_data, cl_mtime, cl_last>>

\* one iteration of ConfigLoader._watch; the callbacks of the set raise
Watch(raising) ==
    /\ cl_last.watching
    /\ \E after \in {watch_once([data |-> cl_data, mtime |-> cl_mtime], cl_file,
                                Callbacks, raising)} :
          /\ cl_data' = after.data
          /\ cl_mtime' = after.mtime
          /\ cl_last' = [op |-> "_watch", before |-> cl_data, file |-> cl_file,
                         raised |-> after.raised, reloaded |-> after.reloaded,
                         watching |-> after.watching,
                         raising |-> raising, calls |-> after.calls]
    /\ UNCHANGED <<cl_file, cl_writes>>

LoaderNext ==
    \/ \E text \in FileTexts : WriteFile(text)
    \/ RemoveFile
    \/ \E raising \in SUBSET {"on_change", "other"} : Watch(raising)

----------------------------------------------------------------------------
(* Worker threads inside Router._calculate_differences                     *)

\* the executor of a client runs handlers on several threads; the samples
\* of one (topic, device_id) carry P0 = ScenP0[1], ScenP0[2], ...
MaxWorkers == 2
MaxSamples == 3
Workers == 1..MaxWorkers

\* Router.__init__, no worker running
WorkersInit ==
    /\ wk_last = <<>>
    /\ wk_pc = [w \in Workers |-> "idle"]
    /\ wk_local = [w \in Workers |-> [P0 |-> 0, last |-> 0]]
    /\ wk_taken = 0
    /\ wk_rows = <<>>
    /\ wk_overlap = FALSE

\* a worker takes the next submitted sample and enters
\* _calculate_differences
WkTake(w) ==
    /\ wk_pc[w] = "idle"
    /\ wk_taken < MaxSamples
    /\ wk_taken' = wk_taken + 1
    /\ wk_pc' = [wk_pc EXCEPT ![w] = "check"]
    /\ wk_local' = [wk_local EXCEPT ![w] = [P0 |-> ScenP0[wk_taken + 1], last |-> 0]]
    /\ wk_overlap' = (wk_overlap \/ \E v \in Workers \ {w} : wk_pc[v] # "idle")
    /\ UNCHANGED <<wk_last, wk_rows>>

\* if cache_key not in self._last_readings
WkCheck(w) ==
    /\ wk_pc[w] = "check"
    /\ wk_pc' = [wk_pc EXCEPT ![w] = IF wk_last = <<>> THEN "baseline" ELSE "read"]
    /\ UNCHANGED <<wk_last, wk_local, wk_taken, wk_rows, wk_overlap>>

\* self._last_readings[cache_key] = {...}; return None
WkBaseline(w) ==
    /\ wk_pc[w] = "baseline"
    /\ wk_last' = <<wk_local[w].P0>>
    /\ wk_pc' = [wk_pc EXCEPT ![w] = "idle"]
    /\ UNCHANGED <<wk_local, wk_taken, wk_rows, wk_overlap>>

\* difference = numeric_current - last_data[key]
WkRead(w) ==
    /\ wk_pc[w] = "read"
    /\ wk_local' = [wk_local EXCEPT ![w].last = wk_last[1]]
    /\ wk_pc' = [wk_pc EXCEPT ![w] = "write"]
    /\ UNCHANGED <<wk_last, wk_taken, wk_rows, wk_overlap>>

\* last_data[key] = numeric_current; return diff_row
WkWrite(w) ==
    /\ wk_pc[w] = "write"
    /\ wk_last' = <<wk_local[w].P0>>
    /\ wk_rows' = Append(wk_rows, [P0 |-> wk_local[w].P0 - wk_local[w].last,
                                   of |-> wk_local[w].P0])
    /\ wk_pc' = [wk_pc EXCEPT ![w] = "idle"]
    /\ UNCHANGED <<wk_local, wk_taken, wk_overlap>>

WorkersNext ==
    \E w \in Workers :
        \/ WkTake(w)
        \/ WkCheck(w)
        \/ WkBaseline(w)
        \/ WkRead(w)
        \/ WkWrite(w)

----------------------------------------------------------------------------
(* Worker threads ensuring one companion table: Router._ensure,            *)
(* DB.ensure_table and DB.ensure_columns, statement by statement. The      *)
(* ALTER statements of one ensure_columns call run in one transaction.     *)

MaxDdlCalls == 3

DdlColumns == {{"P0"}, {"P0", "P1"}}

\* the columns ensure_table adds to those it is given
AddedByCreate == {"id", "ingested_at"}

DdlInit ==
    /\ dd_pc = [t \in Workers |-> "idle"]
    /\ dd_cols = [t \in Workers |-> {}]
    /\ dd_seen = [t \in Workers |-> {}]
    /\ dd_lock = 0
    /\ dd_tables = FALSE
    /\ dd_rtables = FALSE
    /\ dd_schema = <<>>
    /\ dd_ddl = <<>>
    /\ dd_raised = {}
    /\ dd_calls = 0

\* a worker thread reaches self._ensure(table, columns) in route
DdRoute(t, columns) ==
    /\ dd_pc[t] = "idle"
    /\ dd_calls < MaxDdlCalls
    /\ dd_calls' = dd_calls + 1
    /\ dd_cols' = [dd_cols EXCEPT ![t] = columns]
    /\ dd_pc' = [dd_pc EXCEPT ![t] = "_ensure"]
    /\ UNCHANGED <<dd_seen, dd_lock, dd_tables, dd_rtables, dd_schema, dd_ddl, dd_raised>>

\* Router._ensure: existing = self._tables.get(key); if existing is None
DdEnsure(t) ==
    /\ dd_pc[t] = "_ensure"
    /\ dd_pc' = [dd_pc EXCEPT ![t] = IF dd_rtables THEN "ensure_columns" ELSE "acquire"]
    /\ UNCHANGED <<dd_cols, dd_seen, dd_lock, dd_tables, dd_rtables, dd_schema, dd_ddl,
                   dd_raised, dd_calls>>

\* DB.ensure_table: with self._lock
DdAcquire(t) ==
    /\ dd_pc[t] = "acquire"
    /\ dd_lock = 0
    /\ dd_lock' = t
    /\ dd_pc' = [dd_pc EXCEPT ![t] = "ensure_table"]
    /\ UNCHANGED <<dd_cols, dd_seen, dd_tables, dd_rtables, dd_schema, dd_ddl, dd_raised,
                   dd_calls>>

\* DB.ensure_table inside the lock: the cached table, the existing table
\* autoloaded, or CREATE TABLE; then Router._ensure caches the columns
DdEnsureTable(t) ==
    /\ dd_pc[t] = "ensure_table"
    /\ dd_lock = t
    /\ IF dd_tables \/ dd_schema # <<>>
       THEN UNCHANGED <<dd_schema, dd_ddl>>
       ELSE /\ dd_schema' = <<dd_cols[t] \cup AddedByCreate>>
            /\ dd_ddl' = Append(dd_ddl, [thread |-> t, op |-> "CREATE TABLE",
                                         columns |-> dd_cols[t], ok |-> TRUE])
    /\ dd_tables' = TRUE
    /\ dd_rtables' = TRUE
    /\ dd_lock' = 0
    /\ dd_pc' = [dd_pc EXCEPT ![t] = "ensure_columns"]
    /\ UNCHANGED <<dd_cols, dd_seen, dd_raised, dd_calls>>

\* DB.ensure_columns: existing_cols read from the inspector, adds computed
DdInspect(t) ==
    /\ dd_pc[t] = "ensure_columns"
    /\ dd_seen' = [dd_seen EXCEPT ![t] = dd_schema[1]]
    /\ dd_pc' = [dd_pc EXCEPT ![t] = IF dd_cols[t] \subseteq dd_schema[1]
                                     THEN "idle" ELSE "alter"]
    /\ UNCHANGED <<dd_cols, dd_lock, dd_tables, dd_rtables, dd_schema, dd_ddl, dd_raised,
                   dd_calls>>

\* DB.ensure_columns: ALTER TABLE ADD COLUMN for every column of adds; a
\* column that exists by now makes the statement, and the call, fail
DdAlter(t) ==
    LET adds == dd_cols[t] \ dd_seen[t]
        ok == adds \cap dd_schema[1] = {}
    IN  /\ dd_pc[t] = "alter"
        /\ dd_ddl' = Append(dd_ddl, [thread |-> t, op |-> "ALTER TABLE ADD COLUMN",
                                     columns |-> adds, ok |-> ok])
        /\ dd_schema' = IF ok THEN <<dd_schema[1] \cup adds>> ELSE dd_schema
        /\ dd_raised' = IF ok THEN dd_raised ELSE dd_raised \cup {t}
        /\ dd_pc' = [dd_pc EXCEPT ![t] = "idle"]
        /\ UNCHANGED <<dd_cols, dd_seen, dd_lock, dd_tables, dd_rtables, dd_calls>>

DdlNext ==
    \E t \in Workers :
        \/ \E columns \in DdlColumns : DdRoute(t, columns)
        \/ DdEnsure(t)
        \/ DdAcquire(t)
        \/ DdEnsureTable(t)
        \/ DdInspect(t)
        \/ DdAlter(t)

----------------------------------------------------------------------------
(* Router.route under configured patterns and pattern_name overrides       *)

\* a configured pattern that asks for P0 alone
p0_series ==
    [name |-> "p0_series",
     match |-> [keys |-> <<"P0">>],
     table |-> <<"{", "t", "o", "p", "i", "c", "}", "_", "p", "0">>,
     columns |-> [auto |-> TRUE]]

ModeSetups ==
    {[patterns |-> patterns,
      config |-> [has_mapper |-> has_mapper, raw_sql |-> TRUE, route_by_topic |-> <<>>]] :
        patterns \in {<<>>, <<flat_series, p0_series>>}, has_mapper \in BOOLEAN}

\* payloads with a device id, and payloads no device id can be taken from
P0Only(p) == DictV([P0 |-> IntV(p)])
NoDevicePayloads ==
    {P0Only(10), P0Only(15), DictV([Date |-> DateField, P0 |-> IntV(15)])}
ModePayloads ==
    {FlatTs(T120030, <<"1", "0">>), FlatTs(T120615, <<"1", "5">>)} \cup NoDevicePayloads

ModeRules ==
    { <<>>,
      << [pattern |-> <<"*">>, pattern_name |-> "auto"] >>,
      << [pattern |-> <<"*">>, pattern_name |-> "p0_series"] >>,
      << [pattern |-> <<"*">>, pattern_name |-> "flat_series",
          interval_difference |-> [enabled |-> TRUE]] >>,
      << [pattern |-> <<"*">>, pattern_name |-> "legacy"] >>,
      << [pattern |-> <<"*">>, interval_difference |-> [enabled |-> TRUE]] >> }

ModesIdle == md_rule = <<>>

ModesInit ==
    /\ \E setup \in ModeSetups : r_config = setup.config /\ m_patterns = setup.patterns
    /\ meta_tables = <<>>
    /\ db_tables = {}
    /\ r_tables = <<>>
    /\ last_readings = <<>>
    /\ db_rows = <<>>
    /\ r_calls = 0
    /\ r_last = NoRoute
    /\ r_seen = <<>>

MaxModeRoutes == 2

ModesNext ==
    /\ r_calls < MaxModeRoutes
    /\ \E payload \in ModePayloads, rule \in ModeRules, db_ok \in BOOLEAN :
           /\ Route(Gree1, payload, rule, SomeOrder(DOMAIN db_schema),
                    [stage \in DbStages |-> db_ok])
           /\ md_rule' = rule

----------------------------------------------------------------------------
(* SingleClient's network loop and worker pool, MQTTHub.stop_all and the   *)
(* configuration watcher's add_sub.  One connection key: the hub holds at  *)
(* most one SingleClient at a time; a client created after stop_all        *)
(* cleared the map is a new generation with its own loop and executor.     *)

MaxMessages == 2
MaxReloads == 1
MaxGenerations == 2
Generations == 1..MaxGenerations

\* the handlers build_subs registers: two for every device, one for 103
PoolHandlers ==
    <<[topic |-> a_plus, dev |-> None, handler |-> 1, q |-> 1],
      [topic |-> a_b, dev |-> None, handler |-> 2, q |-> 1],
      [topic |-> a_b, dev |-> StrV(Dev103), handler |-> 3, q |-> 1]>>

PoolData ==
    { DictV([DeviceID |-> IntV(103), P0 |-> IntV(5)]),
      DictV([DeviceID |-> StrV(Dev104), P0 |-> IntV(5)]) }

\* a SingleClient that was never created
NoPool == [loop |-> FALSE, shutdown |-> FALSE, queue |-> <<>>, running |-> {}, done |-> {}]

PoolIdle ==
    /\ pl_client = 0
    /\ pl_pool = [g \in Generations |-> NoPool]
    /\ pl_stop = "running"
    /\ pl_msgs = 0
    /\ pl_reloads = 0
    /\ pl_last = [op |-> ""]

\* main after build_subs: one client, connected, its loop started
PoolInit ==
    /\ pl_client = 1
    /\ pl_pool = [g \in Generations |-> IF g = 1 THEN [NoPool EXCEPT !.loop = TRUE] ELSE NoPool]
    /\ pl_stop = "running"
    /\ pl_msgs = 0
    /\ pl_reloads = 0
    /\ pl_last = [op |-> ""]

\* the handlers that raised so far
Raised(pool) == {d \in pool.done : d.raised}

\* self._executor.submit(handler, topic, data) for each match, inside its
\* try: after shutdown submit raises RuntimeError, which is logged
RECURSIVE submit_all(_, _, _)
submit_all(pool, matches, n) ==
    IF Len(matches) = 0 THEN pool
    ELSE submit_all(IF pool.shutdown THEN pool
                    ELSE [pool EXCEPT !.queue =
                             Append(@, [handler |-> matches[1].handler, n |-> n,
                                        after |-> Cardinality(Raised(pool)),
                                        late |-> FALSE])],
                    Tail(matches), n)

\* a worker whose handler raised takes the network loop down with it
handler_done_uncontained(pool, task, raised) ==
    [pool EXCEPT !.running = @ \ {task},
                 !.done = @ \cup {[task |-> task, raised |-> raised]},
                 !.loop = @ /\ ~raised]

\* _WorkItem.run of the executor: the handler's exception is stored in the
\* future, which nobody reads; the worker thread goes on to the next item
handler_done(pool, task, raised) ==
    [pool EXCEPT !.running = @ \ {task},
                 !.done = @ \cup {[task |-> task, raised |-> raised]}]

\* SingleClient.stop up to the wait: loop_stop, disconnect, and the
\* executor refuses new work
client_stop(pool) == [pool EXCEPT !.loop = FALSE, !.shutdown = TRUE]

\* shutdown(wait=True) returns: no work item is queued or running
drained(pool) == pool.queue = <<>> /\ pool.running = {}

\* shutdown returns at once
drained_at_once(pool) == TRUE

\* SingleClient._on_message on the network loop of generation g
PlOnMessage(g, topic, data) ==
    /\ pl_pool[g].loop
    /\ pl_msgs < MaxMessages
    /\ pl_msgs' = pl_msgs + 1
    /\ \E matches \in {on_message(PoolHandlers, topic, data)} :
          /\ pl_pool' = [pl_pool EXCEPT ![g] = submit_all(@, matches, pl_msgs + 1)]
          /\ pl_last' = [op |-> "_on_message", g |-> g, n |-> pl_msgs + 1,
                         topic |-> topic, data |-> data, matches |-> matches]
    /\ UNCHANGED <<pl_client, pl_stop, pl_reloads>>

\* a worker thread of the executor of generation g takes the next item
PlTake(g) ==
    /\ pl_pool[g].queue # <<>>
    /\ Cardinality(pl_pool[g].running) < MaxWorkers
    /\ pl_pool' = [pl_pool EXCEPT
                      ![g].queue = Tail(@),
                      ![g].running = @ \cup {[pl_pool[g].queue[1] EXCEPT
                                                 !.late = (pl_stop = "returned")]}]
    /\ pl_last' = [op |-> "take", g |-> g]
    /\ UNCHANGED <<pl_client, pl_stop, pl_msgs, pl_reloads>>

\* the handler (router.route and the counters) returns or raises
PlFinish(g, task, raised) ==
    /\ task \in pl_pool[g].running
    /\ pl_pool' = [pl_pool EXCEPT ![g] = handler_done(@, task, raised)]
    /\ pl_last' = [op |-> "done", g |-> g, raised |-> raised]
    /\ UNCHANGED <<pl_client, pl_stop, pl_msgs, pl_reloads>>

\* MQTTHub.stop_all from main's finally: the hub's lock is taken and the one
\* client stopped, up to the wait of shutdown
PlStopAll ==
    /\ pl_stop = "running"
    /\ pl_stop' = "draining"
    /\ pl_pool' = IF pl_client = 0 THEN pl_pool
                  ELSE [pl_pool EXCEPT ![pl_client] = client_stop(@)]
    /\ pl_last' = [op |-> "stop_all"]
    /\ UNCHANGED <<pl_client, pl_msgs, pl_reloads>>

\* shutdown(wait=True) returns, self._clients.clear(), the lock is released
PlStopReturn ==
    /\ pl_stop = "draining"
    /\ pl_client # 0 => drained(pl_pool[pl_client])
    /\ pl_stop' = "returned"
    /\ pl_client' = 0
    /\ pl_last' = [op |-> "stop_all returned", g |-> pl_client]
    /\ UNCHANGED <<pl_pool, pl_msgs, pl_reloads>>

\* the watcher thread's on_change reaches hub.add_sub: under the hub's
\* lock, a client is created if the map has none, and started
PlReload(connect_ok) ==
    /\ pl_stop # "draining"
    /\ pl_reloads < MaxReloads
    /\ pl_reloads' = pl_reloads + 1
    /\ \E g \in {IF pl_client # 0 THEN pl_client
                 ELSE 1 + Cardinality({h \in Generations : pl_pool[h] # NoPool})} :
          /\ g \in Generations
          /\ pl_client' = g
          /\ pl_pool' = [pl_pool EXCEPT ![g].loop = @ \/ connect_ok]
    /\ pl_last' = [op |-> "add_sub", created |-> pl_client = 0]
    /\ UNCHANGED <<pl_stop, pl_msgs>>

PoolNext ==
    \/ \E g \in Generations, topic \in HubTopics, data \in PoolData : PlOnMessage(g, topic, data)
    \/ \E g \in Generations : PlTake(g)
    \/ \E g \in Generations, raised \in BOOLEAN :
          \E task \in pl_pool[g].running : PlFinish(g, task, raised)
    \/ PlStopAll
    \/ PlStopReturn
    \/ \E connect_ok \in BOOLEAN : PlReload(connect_ok)

----------------------------------------------------------------------------
(* ConfigLoader._watch and load statement by statement, against a file     *)
(* that is rewritten meanwhile                                             *)

MaxFileWrites == 4

\* texts that parse to a mapping
ReloadTexts == {"routes: A", "routes: B"}

\* the file as load sees it when it records the modification time
file_now(text, mtime) == [exists |-> TRUE, text |-> text, mtime |-> mtime]

ReloadIdle ==
    /\ rl_file = file_now("routes: A", 1)
    /\ rl_loader = [data |-> None, mtime |-> 0]
    /\ rl_pc = "off"
    /\ rl_local = [text |-> ""]
    /\ rl_notified = None
    /\ rl_writes = 0

\* ConfigLoader.__init__ has loaded the file and started the watcher; main
\* has built the subscriptions from get()
ReloadInit ==
    /\ rl_file = file_now("routes: A", 1)
    /\ \E loaded \in {load([data |-> None, mtime |-> 0], rl_file)} :
          /\ rl_loader = [data |-> loaded.data, mtime |-> loaded.mtime]
          /\ rl_notified = loaded.data
    /\ rl_pc = "sleep"
    /\ rl_local = [text |-> ""]
    /\ rl_writes = 0

\* the file is rewritten: new text, later modification time
RlWrite(text) ==
    /\ rl_writes < MaxFileWrites
    /\ rl_writes' = rl_writes + 1
    /\ rl_file' = file_now(text, rl_file.mtime + 1)
    /\ UNCHANGED <<rl_loader, rl_pc, rl_local, rl_notified>>

\* _watch after the sleep: m = self.path.stat().st_mtime; if m != self._mtime
RlStat ==
    /\ rl_pc = "sleep"
    /\ rl_pc' = IF rl_file.mtime # rl_loader.mtime THEN "read_text" ELSE "sleep"
    /\ UNCHANGED <<rl_file, rl_loader, rl_local, rl_notified, rl_writes>>

\* load: self.path.read_text()
RlReadText ==
    /\ rl_pc = "read_text"
    /\ rl_local' = [text |-> rl_file.text]
    /\ rl_pc' = "record"
    /\ UNCHANGED <<rl_file, rl_loader, rl_notified, rl_writes>>

\* load: yaml.safe_load of the text read, self._data = data,
\* self._mtime = self.path.stat().st_mtime
RlRecord ==
    /\ rl_pc = "record"
    /\ \E loaded \in {load(rl_loader, file_now(rl_local.text, rl_file.mtime))} :
          rl_loader' = [data |-> loaded.data, mtime |-> loaded.mtime]
    /\ rl_pc' = "callbacks"
    /\ UNCHANGED <<rl_file, rl_local, rl_notified, rl_writes>>

\* _watch: for cb in self._callbacks: cb(self.get())
RlCallbacks ==
    /\ rl_pc = "callbacks"
    /\ rl_notified' = rl_loader.data
    /\ rl_pc' = "sleep"
    /\ UNCHANGED <<rl_file, rl_loader, rl_local, rl_writes>>

ReloadNext ==
    \/ \E text \in ReloadTexts : RlWrite(text)
    \/ RlStat
    \/ RlReadText
    \/ RlRecord
    \/ RlCallbacks

----------------------------------------------------------------------------
(* Specifications                                                          *)

ClockInit == now = [day |-> 0, h |-> 12, m |-> 1, s |-> 0]

InitInterval ==
    /\ ClockInit /\ cfg_frequency_minutes \in IvFreqs /\ IntervalInit
    /\ MatchIdle /\ DmInit /\ TmIdle /\ RouterIdle /\ FnIdle /\ HubInit /\ ScInit /\ LoaderIdle /\ WorkersInit /\ DdlInit /\ ModesIdle /\ PoolIdle /\ ReloadIdle

SpecInterval ==
    /\ InitInterval
    /\ [][IntervalNext /\ UNCHANGED <<matchVars, dmVars, tmVars, routerVars, fnVars, hubVars, scVars, loaderVars, workerVars, ddlVars, modeVars, poolVars, reloadVars>>]_vars

InitMatch ==
    /\ ClockInit /\ cfg_frequency_minutes = 5 /\ IntervalInit
    /\ MatchInit /\ DmInit /\ TmIdle /\ RouterIdle /\ FnIdle /\ HubInit /\ ScInit /\ LoaderIdle /\ WorkersInit /\ DdlInit /\ ModesIdle /\ PoolIdle /\ ReloadIdle

SpecMatch ==
    /\ InitMatch
    /\ [][Match /\ UNCHANGED <<ivVars, dmVars, tmVars, routerVars, fnVars, hubVars, scVars, loaderVars, workerVars, ddlVars, modeVars, poolVars, reloadVars>>]_vars

InitMapper ==
    /\ ClockInit /\ cfg_frequency_minutes = 5 /\ IntervalInit
    /\ MatchIdle /\ DmInit /\ TmIdle /\ RouterIdle /\ FnIdle /\ HubInit /\ ScInit /\ LoaderIdle /\ WorkersInit /\ DdlInit /\ ModesIdle /\ PoolIdle /\ ReloadIdle

SpecMapper ==
    /\ InitMapper
    /\ [][DmNext /\ UNCHANGED <<ivVars, matchVars, tmVars, routerVars, fnVars, hubVars, scVars, loaderVars, workerVars, ddlVars, modeVars, poolVars, reloadVars>>]_vars

InitTable ==
    /\ ClockInit /\ cfg_frequency_minutes = 5 /\ IntervalInit
    /\ MatchIdle /\ DmInit /\ TmInit /\ RouterIdle /\ FnIdle /\ HubInit /\ ScInit /\ LoaderIdle /\ WorkersInit /\ DdlInit /\ ModesIdle /\ PoolIdle /\ ReloadIdle

SpecTable ==
    /\ InitTable
    /\ [][TmNext /\ UNCHANGED <<ivVars, matchVars, dmVars, routerVars, fnVars, hubVars, scVars, loaderVars, workerVars, ddlVars, modeVars, poolVars, reloadVars>>]_vars

InitRouter ==
    /\ ClockInit /\ cfg_frequency_minutes = 5 /\ IntervalInit
    /\ m_payload = None /\ m_result = <<>>
    /\ DmInit /\ TmIdle /\ RouterInit /\ FnIdle /\ HubInit /\ ScInit /\ LoaderIdle /\ WorkersInit /\ DdlInit /\ ModesIdle /\ PoolIdle /\ ReloadIdle

SpecRouter ==
    /\ InitRouter
    /\ [][/\ RouterNext
          /\ UNCHANGED <<now, cfg_frequency_minutes, iv_calls, iv_last, iv_obs, iv_scen>>
          /\ UNCHANGED <<matchVars, dm_lock, dm_pc, dm_args, dm_existing, dm_calls, dm_ok>>
          /\ UNCHANGED <<tm_calls, tm_last, tm_prev, fnVars, hubVars, scVars, loaderVars, workerVars, ddlVars, modeVars, poolVars, reloadVars>>]_vars

InitFunctions ==
    /\ ClockInit /\ cfg_frequency_minutes = 5 /\ IntervalInit
    /\ MatchIdle /\ DmInit /\ TmIdle /\ RouterIdle /\ FnIdle /\ HubInit /\ ScInit /\ LoaderIdle /\ WorkersInit /\ DdlInit /\ ModesIdle /\ PoolIdle /\ ReloadIdle

SpecFunctions ==
    /\ InitFunctions
    /\ [][FnNext /\ UNCHANGED <<ivVars, matchVars, dmVars, tmVars, routerVars, hubVars, scVars, loaderVars, workerVars, ddlVars, modeVars, poolVars, reloadVars>>]_vars

InitHub ==
    /\ ClockInit /\ cfg_frequency_minutes = 5 /\ IntervalInit
    /\ MatchIdle /\ DmInit /\ TmIdle /\ RouterIdle /\ FnIdle /\ HubInit /\ ScInit /\ LoaderIdle /\ WorkersInit /\ DdlInit /\ ModesIdle /\ PoolIdle /\ ReloadIdle

SpecHub ==
    /\ InitHub
    /\ [][HubNext /\ UNCHANGED <<ivVars, matchVars, dmVars, tmVars, routerVars, fnVars, scVars, loaderVars, workerVars, ddlVars, modeVars, poolVars, reloadVars>>]_vars

InitClient ==
    /\ ClockInit /\ cfg_frequency_minutes = 5 /\ IntervalInit
    /\ MatchIdle /\ DmInit /\ TmIdle /\ RouterIdle /\ FnIdle /\ HubInit /\ ScInit /\ LoaderIdle /\ WorkersInit /\ DdlInit /\ ModesIdle /\ PoolIdle /\ ReloadIdle

SpecClient ==
    /\ InitClient
    /\ [][ScNext /\ UNCHANGED <<ivVars, matchVars, dmVars, tmVars, routerVars, fnVars, hubVars, loaderVars, workerVars, ddlVars, modeVars, poolVars, reloadVars>>]_vars

SpecBoot ==
    /\ InitHub
    /\ [][BootNext /\ UNCHANGED <<ivVars, matchVars, dmVars, tmVars, routerVars, fnVars, scVars, loaderVars, workerVars, ddlVars, modeVars, poolVars, reloadVars>>]_vars

InitLoader ==
    /\ ClockInit /\ cfg_frequency_minutes = 5 /\ IntervalInit
    /\ MatchIdle /\ DmInit /\ TmIdle /\ RouterIdle /\ FnIdle /\ HubInit /\ ScInit
    /\ LoaderInit /\ WorkersInit /\ DdlInit /\ ModesIdle /\ PoolIdle /\ ReloadIdle

SpecLoader ==
    /\ InitLoader
    /\ [][LoaderNext /\ UNCHANGED <<ivVars, matchVars, dmVars, tmVars, routerVars, fnVars, hubVars, scVars, workerVars, ddlVars, modeVars, poolVars, reloadVars>>]_vars

InitWorkers ==
    /\ ClockInit /\ cfg_frequency_minutes = 5 /\ IntervalInit
    /\ MatchIdle /\ DmInit /\ TmIdle /\ RouterIdle /\ FnIdle /\ HubInit /\ ScInit
    /\ LoaderIdle /\ WorkersInit /\ DdlInit /\ ModesIdle /\ PoolIdle /\ ReloadIdle

SpecWorkers ==
    /\ InitWorkers
    /\ [][WorkersNext /\ UNCHANGED <<ivVars, matchVars, dmVars, tmVars, routerVars, fnVars, hubVars, scVars, loaderVars, ddlVars, modeVars, poolVars, reloadVars>>]_vars

InitDdl ==
    /\ ClockInit /\ cfg_frequency_minutes = 5 /\ IntervalInit
    /\ MatchIdle /\ DmInit /\ TmIdle /\ RouterIdle /\ FnIdle /\ HubInit /\ ScInit
    /\ LoaderIdle /\ WorkersInit /\ DdlInit /\ ModesIdle /\ PoolIdle /\ ReloadIdle

SpecDdl ==
    /\ InitDdl
    /\ [][DdlNext /\ UNCHANGED <<ivVars, matchVars, dmVars, tmVars, routerVars, fnVars, hubVars, scVars, loaderVars, workerVars, modeVars, poolVars, reloadVars>>]_vars

InitModes ==
    /\ ClockInit /\ cfg_frequency_minutes = 5 /\ IntervalInit
    /\ m_payload = None /\ m_result = <<>>
    /\ DmInit /\ TmIdle /\ ModesInit /\ FnIdle /\ HubInit /\ ScInit /\ LoaderIdle
    /\ WorkersInit /\ DdlInit /\ ModesIdle /\ PoolIdle /\ ReloadIdle

SpecModes ==
    /\ InitModes
    /\ [][/\ ModesNext
          /\ UNCHANGED <<now, cfg_frequency_minutes, iv_calls, iv_last, iv_obs, iv_scen>>
          /\ UNCHANGED <<matchVars, dm_lock, dm_pc, dm_args, dm_existing, dm_calls, dm_ok>>
          /\ UNCHANGED <<tm_calls, tm_last, tm_prev, fnVars, hubVars, scVars, loaderVars, workerVars, ddlVars, poolVars, reloadVars>>]_vars

InitPool ==
    /\ ClockInit /\ cfg_frequency_minutes = 5 /\ IntervalInit
    /\ MatchIdle /\ DmInit /\ TmIdle /\ RouterIdle /\ FnIdle /\ HubInit /\ ScInit /\ LoaderIdle /\ WorkersInit /\ DdlInit /\ ModesIdle /\ PoolInit /\ ReloadIdle

SpecPool ==
    /\ InitPool
    /\ [][PoolNext /\ UNCHANGED <<ivVars, matchVars, dmVars, tmVars, routerVars, fnVars, hubVars, scVars, loaderVars, workerVars, ddlVars, modeVars, reloadVars>>]_vars

\* the executor's threads and the thread in shutdown(wait=True) run when
\* they can: every handler of the model returns or raises
FairPool ==
    /\ SpecPool
    /\ \A g \in Generations : WF_poolVars(PlTake(g))
    /\ \A g \in Generations :
          WF_poolVars(\E raised \in BOOLEAN : \E task \in pl_pool[g].running : PlFinish(g, task, raised))
    /\ WF_poolVars(PlStopReturn)

InitReload ==
    /\ ClockInit /\ cfg_frequency_minutes = 5 /\ IntervalInit
    /\ MatchIdle /\ DmInit /\ TmIdle /\ RouterIdle /\ FnIdle /\ HubInit /\ ScInit /\ LoaderIdle /\ WorkersInit /\ DdlInit /\ ModesIdle /\ PoolIdle /\ ReloadInit

SpecReload ==
    /\ InitReload
    /\ [][ReloadNext /\ UNCHANGED <<ivVars, matchVars, dmVars, tmVars, routerVars, fnVars, hubVars, scVars, loaderVars, workerVars, ddlVars, modeVars, poolVars>>]_vars

\* the watcher is a thread that runs for as long as the process: each of
\* its statements is carried out once it is reached
FairReload ==
    /\ SpecReload
    /\ WF_reloadVars(RlStat)
    /\ WF_reloadVars(RlReadText)
    /\ WF_reloadVars(RlRecord)
    /\ WF_reloadVars(RlCallbacks)

----------------------------------------------------------------------------
(* Interval-difference claims                                              *)

C3_AsClaimed ==
    /\ \A i \in 1..3 : i <= iv_scen.k /\ iv_scen.k <= 4 => iv_scen.rets[i] = <<>>
    /\ iv_scen.k = 4 =>
          /\ Len(iv_scen.rets[4]) = 1
          /\ iv_scen.rets[4][1].start_P0_value = FloatV(110)
          /\ iv_scen.rets[4][1].end_P0_value = FloatV(150)
          /\ iv_scen.rets[4][1].P0 = FloatV(50)

\* C3 as amended: the fourth sample's row has start_P0_value = 110,
\* end_P0_value = 150 and P0 = 150 - 110 = 40.
C3_Scenario ==
    /\ \A i \in 1..3 : i <= iv_scen.k /\ iv_scen.k <= 4 => iv_scen.rets[i] = <<>>
    /\ iv_scen.k = 4 =>
          /\ Len(iv_scen.rets[4]) = 1
          /\ iv_scen.rets[4][1].start_P0_value = FloatV(110)
          /\ iv_scen.rets[4][1].end_P0_value = FloatV(150)
          /\ iv_scen.rets[4][1].P0 = FloatV(40)

C3_Witness == iv_scen.k = 4 /\ Len(iv_scen.rets[4]) = 1

----------------------------------------------------------------------------
(* Pattern-matcher claim                                                   *)

\* the patterns of m_patterns (by index) that match key set K
Matching(K) ==
    {i \in 1..Len(m_patterns) :
        pattern_req(m_patterns[i]) # {} /\ pattern_req(m_patterns[i]) \subseteq K}

ClaimedScore(i, K) ==
    IF Cardinality(pattern_req(m_patterns[i])) = Cardinality(K) THEN 1000
    ELSE Cardinality(pattern_req(m_patterns[i]))

\* the earliest of the highest-scoring matching patterns
Winner(K) ==
    CHOOSE i \in Matching(K) :
        \A j \in Matching(K) :
            \/ ClaimedScore(j, K) < ClaimedScore(i, K)
            \/ ClaimedScore(j, K) = ClaimedScore(i, K) /\ i <= j

SchemaPatterns == {i \in 1..Len(m_patterns) : pattern_has_schema(m_patterns[i])}

Expected ==
    LET top == IF IsDict(m_payload) THEN KeysOf(m_payload) ELSE {}
        nestedOk == IsDict(m_payload) /\ "d" \in top /\ IsDict(m_payload.v["d"])
        nested == IF nestedOk THEN KeysOf(m_payload.v["d"]) ELSE {}
    IN  IF IsDict(m_payload) /\ Matching(top) # {} THEN <<m_patterns[Winner(top)]>>
        ELSE IF nestedOk /\ Matching(nested) # {} THEN <<m_patterns[Winner(nested)]>>
        ELSE IF {"d", "ts"} \subseteq top /\ SchemaPatterns # {}
        THEN <<m_patterns[CHOOSE i \in SchemaPatterns : \A j \in SchemaPatterns : i <= j]>>
        ELSE <<>>

\* C8: match returns the highest-scoring pattern whose non-empty key set is
\* contained in the payload's keys (1000 for an exact match, else |R|), the
\* earliest on a tie; only failing that the same over the keys of a nested
\* d map; failing that the first schema-marker pattern when the payload has
\* d and ts; otherwise nothing.
C8_MatchRule == Len(m_result) = 1 => m_result[1] = Expected

\* a tie between two matching patterns at top level, decided for the first
C8_Witness ==
    /\ Len(m_result) = 1
    /\ Len(m_result[1]) = 1
    /\ IsDict(m_payload)
    /\ \E i, j \in Matching(KeysOf(m_payload)) :
          /\ i < j
          /\ ClaimedScore(i, KeysOf(m_payload)) = ClaimedScore(j, KeysOf(m_payload))
          /\ m_result[1][1] = m_patterns[i]
          /\ \A k \in Matching(KeysOf(m_payload)) :
                ClaimedScore(k, KeysOf(m_payload)) <= ClaimedScore(i, KeysOf(m_payload))

----------------------------------------------------------------------------
(* Device-mapper claim                                                     *)

\* C6: for every key the stored message_count equals the number of
\* register_device calls for the key that succeeded (so it never decreases
\* and a key has a row exactly when a call succeeded), and the stored
\* table_name and pattern_name are those of the most recent successful call,
\* whatever the interleaving of the worker threads.
C6_MessageCount ==
    /\ DOMAIN mapper_table = DOMAIN dm_ok
    /\ \A key \in DOMAIN mapper_table :
          /\ mapper_table[key].message_count = Len(dm_ok[key])
          /\ <<mapper_table[key].table_name, mapper_table[key].pattern_name>>
                = dm_ok[key][Len(dm_ok[key])]

\* two threads have registered the same key, one waiting for the other
C6_Witness ==
    \E key \in DOMAIN mapper_table :
        /\ mapper_table[key].message_count = 2
        /\ dm_ok[key][1] # dm_ok[key][2]
        /\ \E t \in DmThreads : dm_pc[t] = "wait" /\ dm_args[t].key = key /\ dm_lock # 0

----------------------------------------------------------------------------
(* Table manager claims                                                    *)

\* C9: table ensuring is idempotent.  Of two successive calls of
\* get_or_create_table_name with the identical table_config, topic,
\* device_pattern and payload, neither of which met a DDL failure, the
\* second returns the same table name and issues no DDL at all.
C9_Idempotent ==
    /\ tm_prev.called /\ tm_last.called /\ tm_prev.args = tm_last.args
    /\ ~tm_prev.failed /\ ~tm_last.failed
    => tm_last.ret = tm_prev.ret /\ tm_last.ddl = <<>>

\* the compatibility table: existing type -> required type
Compatible(existing_type, required_type) ==
    \/ existing_type = required_type
    \/ existing_type = "int" /\ required_type = "float"
    \/ existing_type = "string" /\ required_type = "json"
    \/ existing_type = "json" /\ required_type = "string"

\* the last call ran _ensure_table_exists on a table that existed and has a
\* shared column whose existing type is incompatible with the required one
C10_Conflict ==
    /\ tm_last.called
    /\ ConfigGet(tm_last.args[1], "auto_create", TRUE)
    /\ tm_last.table_name \in DOMAIN tm_last.db
    /\ \E col \in DOMAIN get_data_columns(tm_last.args[4]) \cap DOMAIN tm_last.db[tm_last.table_name] :
          ~Compatible(internal_type(tm_last.db[tm_last.table_name][col]),
                      get_data_columns(tm_last.args[4])[col])

ConfiguredName(table_config) ==
    IF "table_override" \in DOMAIN table_config /\ Len(table_config["table_override"]) = 1
    THEN table_config["table_override"]
    ELSE IF Len(ConfigGet(table_config, "name", <<>>)) > 0
         THEN <<table_config["name"]>>
    ELSE <<>>

\* Jaccard similarity >= 0.8 of two sets of column names
Jaccard80(A, B) ==
    /\ A \cup B # {}
    /\ 5 * Cardinality(A \cap B) >= 4 * Cardinality(A \cup B)

\* the tables of the database before the last call that steps (3) may
\* reuse: name starting with prefix, non-metadata columns similar to the
\* required ones
SimilarTables(prefix) ==
    {t \in DOMAIN tm_last.db :
        /\ startswith(t, prefix)
        /\ Jaccard80(DOMAIN tm_last.db[t] \ {"id", "ingested_at", "topic"},
                     DOMAIN get_data_columns(tm_last.args[4]))}

\* the name steps (2) to (4) give, the similar tables being those with
\* the given prefix
GeneratedAs(prefix) ==
    LET safe == safe_topic(tm_last.args[2])
        count == Cardinality(DOMAIN get_data_columns(tm_last.args[4]))
        numbered(part) == safe \o <<"_">> \o part \o IntToStr(count)
    IN  IF count \in {4, 5, 9} THEN tm_last.table_name = numbered(<<>>)
        ELSE IF SimilarTables(prefix) # {} THEN tm_last.table_name \in SimilarTables(prefix)
        ELSE IF tm_last.args[3] # <<"*">>
             THEN tm_last.table_name = numbered(tm_last.args[3] \o <<"_">>)
        ELSE tm_last.table_name = numbered(<<"a", "u", "t", "o", "_">>)

\* C11: the table manager resolves the table name in strict priority
\* order: (1) the explicitly configured name (table_config.name or the
\* legacy table_override) with {topic} replaced by the sanitized topic;
\* (2) else safe_topic_count for 4, 5 or 9 data columns; (3) else an
\* existing table whose name starts with safe_topic_ and whose non-metadata
\* columns have Jaccard similarity >= 0.8 with the required ones; (4) else
\* safe_topic_devicepattern_count, or safe_topic_auto_count for '*'.
C11_AsClaimed ==
    tm_last.called =>
        LET configured == ConfiguredName(tm_last.args[1])
        IN  IF Len(configured) = 1
            THEN tm_last.table_name = format_table(configured[1], tm_last.args[2])
            ELSE GeneratedAs(safe_topic(tm_last.args[2]) \o <<"_">>)

\* the order the code follows: the configured name is taken literally, and
\* a similar table need only start with the sanitized topic
C11_Resolution ==
    tm_last.called =>
        LET configured == ConfiguredName(tm_last.args[1])
        IN  IF Len(configured) = 1
            THEN tm_last.table_name = configured[1]
            ELSE GeneratedAs(safe_topic(tm_last.args[2]))

\* a configured name with the placeholder was resolved; a similar table
\* was reused for a shape with no numbered table
C11_Templated ==
    /\ tm_last.called
    /\ ConfiguredName(tm_last.args[1]) = <<topic_readings>>

C11_Reused ==
    /\ tm_last.called
    /\ ConfiguredName(tm_last.args[1]) = <<>>
    /\ Cardinality(DOMAIN get_data_columns(tm_last.args[4])) \notin {4, 5, 9}
    /\ SimilarTables(safe_topic(tm_last.args[2])) # {}

\* C12: _types_compatible(existing, required) is true exactly for
\* existing = required, (int, float), (string, json) and (json, string), and
\* false for every other pair of column types, among them (float, int),
\* (int, string) and (float, boolean).
C12_TypesCompatible ==
    fn_call.fn = "_types_compatible" =>
        /\ fn_call.ret <=> Compatible(fn_call.args[1], fn_call.args[2])
        /\ fn_call.args \in {<<"float", "int">>, <<"int", "string">>, <<"float", "boolean">>}
              => ~fn_call.ret

\* the narrowing pair (float, int) was compared and refused
C12_Witness ==
    /\ fn_call.fn = "_types_compatible"
    /\ fn_call.args = <<"float", "int">>
    /\ fn_call.ret = FALSE

----------------------------------------------------------------------------
(* Transformer claims                                                      *)

\* the number of digits of a fractional field's value: the digits of the
\* numeral, or of the number
DigitsOf(value) ==
    IF value.ty = "str" THEN Cardinality({i \in 1..Len(value.v) : IsDigit(value.v[i])})
    ELSE decimal_places_unsigned(value.v)

\* the last call was a decimal combination of two fields that are present
\* and read as ints, with all three field names configured
C13_Combined ==
    /\ fn_call.fn = "_combine_decimal_parts"
    /\ {"integer_field", "fractional_field", "target_field"} \subseteq DOMAIN fn_call.args[2]
    /\ {"P0", "P1"} \subseteq DOMAIN fn_call.args[1]
    /\ Len(py_int(fn_call.args[1]["P0"])) = 1
    /\ Len(py_int(fn_call.args[1]["P1"])) = 1

\* what the combination leaves, for D decimal places: the target holds
\* integer + fractional / 10^D, the fractional field is gone if
\* remove_fractional, every other field is as it was
C13_Result(D) ==
    LET data == fn_call.args[1]
        action == fn_call.args[2]
        ret == fn_call.ret
        target == action["target_field"]
        removed == IF ConfigGet(action, "remove_fractional", FALSE) THEN {"P1"} ELSE {}
    IN  /\ DOMAIN ret = (DOMAIN data \cup {target}) \ removed
        /\ target \in DOMAIN ret =>
              ret[target] = Quotient(py_int(data["P0"])[1] * Pow10(D) + py_int(data["P1"])[1],
                                     Pow10(D))
        /\ \A f \in DOMAIN ret \ {target} : ret[f] = data[f]

\* C13: combine_decimal writes integer + fractional / 10^D to target_field,
\* D the number of digits of the fractional field's value, and removes
\* fractional_field when remove_fractional is true; P0=12345, P1=81723 gives
\* 12345.81723 with no P1, P0=987, P1=654 gives 987.654, P0=100, P1=0 gives
\* 100.0.
C13_AsClaimed ==
    C13_Combined => C13_Result(DigitsOf(fn_call.args[1]["P1"]))

\* what the code computes: D is the length of str(int(fractional)), which
\* counts a minus sign and drops the leading zeros of a numeral
C13_AsComputed ==
    C13_Combined => C13_Result(Len(IntToStr(py_int(fn_call.args[1]["P1"])[1])))

\* the three examples of the claim
C13_Examples ==
    /\ fn_call.fn = "_combine_decimal_parts" /\ fn_call.args[2] = combine_P0_P1
    /\ "P1" \in DOMAIN fn_call.args[1]
    => LET p == <<fn_call.args[1]["P0"], fn_call.args[1]["P1"]>>
       IN  /\ p = <<IntV(12345), IntV(81723)>> =>
                /\ fn_call.ret["P0"] = [ty |-> "float", num |-> 1234581723, den |-> 100000]
                /\ "P1" \notin DOMAIN fn_call.ret
           /\ p = <<IntV(987), IntV(654)>> =>
                fn_call.ret["P0"] = [ty |-> "float", num |-> 493827, den |-> 500]
           /\ p = <<IntV(100), IntV(0)>> => fn_call.ret["P0"] = FloatV(100)

C13_ExampleReached ==
    /\ fn_call.fn = "_combine_decimal_parts" /\ fn_call.args[2] = combine_P0_P1
    /\ fn_call.args[1]["P0"] = IntV(12345)
    /\ "P1" \in DOMAIN fn_call.args[1] /\ fn_call.args[1]["P1"] = IntV(81723)

\* the condition of a transformation as the claim states it
ConditionHolds(data, topic, condition) ==
    /\ "topic" \in DOMAIN condition => topic = condition["topic"]
    /\ "fields" \in DOMAIN condition =>
          \A f \in DOMAIN condition["fields"] :
              f \in DOMAIN data /\ py_eq(data[f], condition["fields"][f])
    /\ "has_fields" \in DOMAIN condition => condition["has_fields"] \subseteq DOMAIN data

\* the data after the first n transformations of the last call, each one
\* applied if and only if its condition holds on the data so far
RECURSIVE TransformedSoFar(_)
TransformedSoFar(n) ==
    IF n = 0 THEN fn_call.args[1]
    ELSE LET so_far == TransformedSoFar(n - 1)
             transformation == fn_call.args[3][n]
         IN  IF ConditionHolds(so_far, fn_call.args[2],
                               ConfigGet(transformation, "condition", <<>>))
             THEN apply_transformation(so_far, transformation)
             ELSE so_far

\* C14: a transformation is applied if and only if its condition holds on
\* the data as transformed so far (topic equal when given, every field of
\* condition.fields present with the given value, every field of has_fields
\* present, an empty condition always); when no condition holds the output
\* equals the input.
C14_Conditions ==
    fn_call.fn = "apply_transformations" =>
        /\ fn_call.ret = TransformedSoFar(Len(fn_call.args[3]))
        /\ (\A n \in 1..Len(fn_call.args[3]) :
               ~ConditionHolds(TransformedSoFar(n - 1), fn_call.args[2],
                               ConfigGet(fn_call.args[3][n], "condition", <<>>)))
           => fn_call.ret = fn_call.args[1]

\* a first transformation removed P1, and the second, conditioned on P1,
\* was therefore not applied
C14_Witness ==
    /\ fn_call.fn = "apply_transformations"
    /\ Len(fn_call.args[3]) = 2
    /\ fn_call.args[3][1] = [name |-> "other", action |-> [type |-> "remove_field", field |-> "P1"]]
    /\ fn_call.args[3][2] = scale_if_P1
    /\ "P1" \in DOMAIN fn_call.args[1]
    /\ fn_call.ret = without(fn_call.args[1], "P1")

\* C15: applying the transformer with an empty transformation list returns
\* a map equal to the input map (same keys, same values).
C15_EmptyList ==
    fn_call.fn = "apply_transformations" /\ fn_call.args[3] = <<>> =>
        /\ DOMAIN fn_call.ret = DOMAIN fn_call.args[1]
        /\ \A f \in DOMAIN fn_call.args[1] : fn_call.ret[f] = fn_call.args[1][f]

C15_Witness ==
    /\ fn_call.fn = "apply_transformations" /\ fn_call.args[3] = <<>>
    /\ fn_call.args[1] = [DeviceID |-> StrV(<<"m", "1">>), P0 |-> IntV(987),
                          P1 |-> IntV(654)]
    /\ fn_call.ret = fn_call.args[1]

----------------------------------------------------------------------------
(* Sanitisation and device id claims                                       *)

\* a sanitised name: characters of [a-z0-9_] only, no two underscores in a
\* row, none at either end
Sanitised(s) ==
    /\ \A i \in 1..Len(s) : IsNameChar(s[i])
    /\ \A i \in 1..(Len(s) - 1) : ~(s[i] = "_" /\ s[i + 1] = "_")
    /\ Len(s) > 0 => s[1] # "_" /\ s[Len(s)] # "_"

\* C16: topic sanitisation (lowercase, every run of characters outside
\* [a-z0-9_] replaced by '_', runs of '_' collapsed, leading and trailing
\* '_' trimmed) is idempotent, sanitize(sanitize(t)) = sanitize(t) for every
\* topic t, and the Router and the TableManager compute the same sanitised
\* value for the same topic.
C16_Sanitise ==
    fn_call.fn = "_safe_topic" =>
        /\ fn_call.ret.router_again = fn_call.ret.router
        /\ fn_call.ret.table_manager_again = fn_call.ret.table_manager
        /\ fn_call.ret.table_manager = fn_call.ret.router
        /\ Sanitised(fn_call.ret.router)

\* a topic with a capital, a run of other characters and underscores at
\* both ends was sanitised
C16_Witness ==
    /\ fn_call.fn = "_safe_topic"
    /\ fn_call.args[1] = <<"_", "A", "/", "-">>
    /\ fn_call.ret.router = <<"a">>
    /\ fn_call.ret.table_manager = <<"a">>

\* the first element of a non-empty list, as a string; any other value as
\* a string
FirstAsString(value) ==
    IF value.ty = "list" /\ Len(value.v) > 0 THEN PyStr(value.v[1]) ELSE PyStr(value)

\* the keys of a dict that name the device whatever their case
AnyCaseDeviceKeys(obj) ==
    {k \in DOMAIN obj : key_lower(k) \in {"deviceid", "device_id", "device"}}

\* the device ids the claimed order allows for a payload and a row
ClaimedDeviceIds(payload, row_data) ==
    LET top == IF payload.ty = "dict" THEN payload.v ELSE <<>>
        nested == IF "d" \in DOMAIN top /\ top["d"].ty = "dict" THEN top["d"].v ELSE <<>>
    IN  IF "DeviceID" \in DOMAIN top THEN {<<PyStr(top["DeviceID"])>>}
        ELSE IF "DeviceID" \in DOMAIN nested THEN {<<FirstAsString(nested["DeviceID"])>>}
        ELSE IF AnyCaseDeviceKeys(top) # {}
             THEN {<<PyStr(top[k])>> : k \in AnyCaseDeviceKeys(top)}
        ELSE IF AnyCaseDeviceKeys(nested) # {}
             THEN {<<FirstAsString(nested[k])>> : k \in AnyCaseDeviceKeys(nested)}
        ELSE IF Len(row_data) = 1 /\ "DeviceID" \in DOMAIN row_data[1]
             THEN {<<PyStr(row_data[1]["DeviceID"])>>}
        ELSE {<<>>}

\* the payload {"d": {"deviceID": [77], "P0": [5]}, "ts": ...}
nested_deviceID_77 ==
    DictV([d |-> DictV([deviceID |-> ListV(<<IntV(77)>>), P0 |-> ListV(<<IntV(5)>>)]),
           ts |-> T1200])

\* C17: the device id is the first hit, as a string, of: top-level
\* DeviceID; nested d.DeviceID (first element if it is a list); a
\* case-insensitive deviceid / device_id / device key at top level, then
\* under d (first element if a list); or the row map.  The payload
\* {d: {deviceID: [77], P0: [5]}, ts: ...} resolves to "77".
C17_DeviceId ==
    fn_call.fn = "_extract_device_id" =>
        /\ fn_call.ret \in ClaimedDeviceIds(fn_call.args[1], fn_call.args[2])
        /\ fn_call.args[1] = nested_deviceID_77 => fn_call.ret = <<<<"7", "7">>>>

C17_Witness ==
    /\ fn_call.fn = "_extract_device_id"
    /\ fn_call.args[1] = nested_deviceID_77
    /\ fn_call.ret = <<<<"7", "7">>>>

----------------------------------------------------------------------------
(* MQTT claims                                                             *)

\* the MQTT rules on the levels of a filter and of a topic: levels are
\* compared one by one, '+' matches exactly one level, '#' only as the last
\* level of the filter, where it matches all remaining levels
RECURSIVE MqttMatches(_, _)
MqttMatches(filter_levels, topic_levels) ==
    IF Len(filter_levels) = 0 THEN Len(topic_levels) = 0
    ELSE IF filter_levels[1] = <<"#">> THEN Len(filter_levels) = 1
    ELSE /\ Len(topic_levels) > 0
         /\ filter_levels[1] \in {<<"+">>, topic_levels[1]}
         /\ MqttMatches(Tail(filter_levels), Tail(topic_levels))

\* C20: _topic_filter_matches(filter, topic) is true exactly when the topic
\* matches the filter under the MQTT rules: levels compared one by one, '+'
\* matches exactly one level, '#' is accepted only as the last level and
\* then matches all remaining levels, and a filter without wildcards
\* matches only the identical topic.
C20_TopicFilter ==
    fn_call.fn = "_topic_filter_matches" =>
        /\ fn_call.ret <=> MqttMatches(fn_call.args[1], fn_call.args[2])
        /\ (\A i \in 1..Len(fn_call.args[1]) : fn_call.args[1][i] \notin {<<"+">>, <<"#">>})
           => (fn_call.ret <=> fn_call.args[1] = fn_call.args[2])

\* a/+/# was matched against a/b/a, and '+' took exactly one level
C20_Witness ==
    /\ fn_call.fn = "_topic_filter_matches"
    /\ fn_call.args = <<<< <<"a">>, <<"+">>, <<"#">> >>, << <<"a">>, <<"b">>, <<"a">> >> >>
    /\ fn_call.ret = TRUE

----------------------------------------------------------------------------
(* Router claims                                                           *)

\* the numeric fields two rows share
SharedNumeric(a, b) == DOMAIN extract_numeric_fields(a) \cap DOMAIN extract_numeric_fields(b)

\* in an emitted row, every numeric field present in both the previous and
\* the current sample of the key holds the current value minus the
\* previous one
C1_FieldDifferences ==
    r_last.reached /\ Len(r_last.diff_row) = 1 /\ Len(r_last.prev_row) = 1 =>
        \A f \in SharedNumeric(r_last.prev_row[1], r_last.row[1]) :
            /\ f \in DOMAIN r_last.diff_row[1]
            /\ r_last.diff_row[1][f] =
                   FloatV(extract_numeric_fields(r_last.row[1])[f]
                          - extract_numeric_fields(r_last.prev_row[1])[f])

\* C1: for one (topic, device_id) key, the n >= 1 samples handed to
\* _calculate_differences one after another yield exactly n-1 rows (none for
\* the first, one for every later sample), and each row holds the
\* field-wise differences of the numeric fields both samples carry.
C1_AsClaimed ==
    /\ \A key \in DOMAIN r_seen : r_seen[key].emitted = r_seen[key].n - 1
    /\ C1_FieldDifferences

\* C4: every row route passes to DB.insert has a key set that is a subset
\* of the columns its target table has after being ensured, for flat and
\* for d-envelope payloads alike.
C4_AsClaimed ==
    \A i \in DOMAIN r_last.log :
        DOMAIN r_last.log[i].row \subseteq DOMAIN r_last.log[i].columns

\* the type of the compatibility table a Python value has at run time
runtime_type(value) ==
    CASE value.ty \in {"int", "bool"} -> "int"
      [] value.ty = "float" -> "float"
      [] value.ty = "str" -> "string"
      [] OTHER -> "json"

\* C5: every value of a row route inserts has a runtime type that the
\* declared type of its column accepts under the compatibility table
\* (existing -> required); None is stored as NULL in a column of any type.
C5_AsClaimed ==
    \A i \in DOMAIN r_last.log :
        r_last.log[i].ok =>
            \A k \in DOMAIN r_last.log[i].row :
                \/ r_last.log[i].row[k].ty = "none"
                \/ Compatible(internal_type(r_last.log[i].columns[k]),
                              runtime_type(r_last.log[i].row[k]))

gree1_9 == <<"g", "r", "e", "e", "1", "_", "9">>

\* the last call routed, without an exception, the first nine-field sample
\* of (Gree1, 103)
C7_FirstSample ==
    /\ r_last.called /\ r_last.first /\ ~r_last.raised
    /\ r_last.topic = Gree1 /\ r_last.device_id = <<Dev103>>
    /\ r_last.payload \in {NineFields(10), NineFields(15)}

\* after it the table gree1_9 exists and neither it nor its diff table
\* holds a row
C7_TableAndNoRows ==
    C7_FirstSample =>
        /\ gree1_9 \in DOMAIN db_schema
        /\ \A t \in DOMAIN db_rows : db_rows[t] = 0

\* C7: after the first sample of (Gree1, 103), nine data fields, is routed,
\* the table gree1_9 exists, no row has been inserted into the base or the
\* diff table, and the device registry holds (Gree1, 103) with table gree1_9
\* and message_count = 1.
C7_AsClaimed ==
    /\ C7_TableAndNoRows
    /\ C7_FirstSample =>
          /\ <<Gree1, Dev103>> \in DOMAIN mapper_table
          /\ mapper_table[<<Gree1, Dev103>>].table_name = gree1_9
          /\ mapper_table[<<Gree1, Dev103>>].message_count = 1

----------------------------------------------------------------------------
(* Hub claims                                                              *)

\* the entry add_sub appends for the call observed in hub_last
LastEntry ==
    [topic |-> hub_last.topic, dev |-> hub_last.dev, handler |-> hub_last.handler,
     q |-> DefaultQos]

\* the call observed in hub_last met a client for its key and left that
\* same client in the pool with the handler added after the others
AddedToExisting ==
    /\ hub_last.before # <<>>
    /\ hub_clients[hub_last.key].cid = hub_last.before[1].cid
    /\ hub_clients[hub_last.key].conn = hub_last.before[1].conn
    /\ hub_clients[hub_last.key].handlers = Append(hub_last.before[1].handlers, LastEntry)

\* C18 as claimed: after any sequence of add_sub calls the hub holds exactly
\* one SingleClient per distinct (broker, port, username, password, ca_cert)
\* tuple of the calls, and an add_sub whose tuple was already seen creates
\* no new client and adds its handler to the existing one.
C18_AsClaimed ==
    /\ DOMAIN hub_clients = hub_seen
    /\ (hub_last.op = "add_sub" /\ hub_last.seen) => AddedToExisting

\* C18: the hub holds at most one SingleClient per distinct tuple, each
\* pooled under the tuple of its own settings, and exactly one for every
\* tuple seen that names no CA certificate; a tuple with a CA certificate
\* has none as long as every add_sub for it failed on the missing file.  An
\* add_sub whose tuple already has a client creates no new client and adds
\* its handler to the existing one; one whose tuple has none and that does
\* not fail on the CA file creates the client with that handler alone.
C18_OnePerTuple ==
    /\ DOMAIN hub_clients \subseteq hub_seen
    /\ \A key \in hub_seen : key \in DOMAIN hub_clients \/ Truthy(key[5])
    /\ \A key \in DOMAIN hub_clients : hub_key(hub_clients[key].conn) = key
    /\ \A k1 \in DOMAIN hub_clients, k2 \in DOMAIN hub_clients :
          hub_clients[k1].cid = hub_clients[k2].cid => k1 = k2
    /\ hub_last.op = "add_sub" =>
          /\ hub_last.before # <<>> => AddedToExisting
          /\ (hub_last.before = <<>> /\ hub_last.raised # "FileNotFoundError") =>
                /\ hub_clients[hub_last.key].cid = hub_last.handler
                /\ hub_clients[hub_last.key].handlers = <<LastEntry>>
          /\ hub_last.raised = "FileNotFoundError" =>
                /\ hub_last.before = <<>>
                /\ Truthy(hub_last.key[5])
                /\ hub_last.key \notin DOMAIN hub_clients

\* the add_sub with a null port met the client made for port 8883 and
\* added the second handler to it
C18_Witness ==
    /\ hub_last.op = "add_sub"
    /\ hub_last.seen
    /\ hub_last.before # <<>>
    /\ "port" \notin DOMAIN hub_last.conn
    /\ "port" \in DOMAIN hub_last.before[1].conn
    /\ hub_last.before[1].conn.port = IntV(DefaultPort)
    /\ hub_clients[hub_last.key].conn = hub_last.before[1].conn
    /\ Len(hub_clients[hub_last.key].handlers) = 2
    /\ Cardinality(DOMAIN hub_clients) = 1

\* the first add_sub for the TLS tuple failed on the missing CA file, the
\* second found the file and created the client: a tuple already seen
\* created a new client
C18_SeenTupleCreates ==
    /\ hub_last.op = "add_sub"
    /\ hub_last.seen
    /\ hub_last.before = <<>>
    /\ hub_last.key \in DOMAIN hub_clients

\* the handler's topic filter matches the topic of the message
FilterMatches(h, topic) == MqttMatches(split_slash(h.topic), split_slash(topic))

\* the handler is bound to a device, and the payload is an object whose
\* DeviceID, as a string, is that device
BoundTo(h, data) ==
    /\ h.dev.ty = "str"
    /\ data.ty = "dict"
    /\ PyStr(Get(data.v, "DeviceID")) = h.dev.v

\* the positions of the handlers dispatched for a message, given the
\* positions of its candidates
Dispatched(handlers, candidates) ==
    IF \E i \in candidates : handlers[i].dev.ty = "str"
    THEN {i \in candidates : handlers[i].dev.ty = "str"}
    ELSE candidates

\* the message observed in hub_last was submitted to the handlers at the
\* given positions, once each and in the order of their registration
SubmittedTo(positions) ==
    /\ Len(hub_last.submitted) = Cardinality(positions)
    /\ {m.handler : m \in {hub_last.submitted[j] : j \in 1..Len(hub_last.submitted)}}
       = {hub_last.handlers[i].handler : i \in positions}
    /\ \A j \in 1..Len(hub_last.submitted) :
          /\ \E i \in positions :
                /\ hub_last.handlers[i].handler = hub_last.submitted[j].handler
                /\ hub_last.handlers[i].dev = hub_last.submitted[j].dev
          /\ j > 1 => hub_last.submitted[j - 1].handler < hub_last.submitted[j].handler

\* no message goes to a handler of a specific device and to a wildcard one
NeverBoth ==
    ~ /\ \E j \in 1..Len(hub_last.submitted) : hub_last.submitted[j].dev.ty = "str"
      /\ \E j \in 1..Len(hub_last.submitted) : hub_last.submitted[j].dev.ty = "none"

\* C19 as claimed: the candidates of a message are all registered handlers
\* whose topic filter matches the message topic; if any candidate has a
\* specific device_id binding, no wildcard handler is dispatched, so no
\* message is processed by both kinds of handler.
C19_AsClaimed ==
    hub_last.op = "_on_message" =>
        /\ SubmittedTo(Dispatched(hub_last.handlers,
              {i \in 1..Len(hub_last.handlers) :
                  FilterMatches(hub_last.handlers[i], hub_last.topic)}))
        /\ NeverBoth

\* C19: the candidates of a message are the registered handlers whose topic
\* filter matches the message topic and that are wildcard handlers or bound
\* to the DeviceID of the payload; if any candidate has a specific
\* device_id binding, only the candidates with one are dispatched, else all
\* candidates are, so no message is processed by both a device-specific
\* handler and a wildcard handler.
C19_Suppression ==
    hub_last.op = "_on_message" =>
        /\ SubmittedTo(Dispatched(hub_last.handlers,
              {i \in 1..Len(hub_last.handlers) :
                  /\ FilterMatches(hub_last.handlers[i], hub_last.topic)
                  /\ \/ hub_last.handlers[i].dev.ty = "none"
                     \/ BoundTo(hub_last.handlers[i], hub_last.data)}))
        /\ NeverBoth

\* a message of device 103 on a topic with a handler bound to 103 and a
\* wildcard handler went to the bound handler alone
C19_Witness ==
    /\ hub_last.op = "_on_message"
    /\ Len(hub_last.handlers) = 2
    /\ \E i \in 1..2 : /\ hub_last.handlers[i].dev.ty = "none"
                       /\ FilterMatches(hub_last.handlers[i], hub_last.topic)
    /\ \E i \in 1..2 : /\ BoundTo(hub_last.handlers[i], hub_last.data)
                       /\ FilterMatches(hub_last.handlers[i], hub_last.topic)
    /\ Len(hub_last.submitted) = 1
    /\ hub_last.submitted[1].dev = StrV(Dev103)

\* a message of device 104 on a topic with a handler bound to 103 and a
\* wildcard handler went to the wildcard handler
C19_WildcardForOtherDevice ==
    /\ hub_last.op = "_on_message"
    /\ Len(hub_last.handlers) = 2
    /\ \A i \in 1..2 : FilterMatches(hub_last.handlers[i], hub_last.topic)
    /\ \E i \in 1..2 : hub_last.handlers[i].dev = StrV(Dev103)
    /\ hub_last.data.ty = "dict"
    /\ Get(hub_last.data.v, "DeviceID") = StrV(Dev104)
    /\ Len(hub_last.submitted) = 1
    /\ hub_last.submitted[1].dev.ty = "none"

----------------------------------------------------------------------------
(* Session claims                                                          *)

\* the filters of the registered handlers
RegisteredFilters == {sc_client.handlers[i].topic : i \in 1..Len(sc_client.handlers)}

\* the qos last registered for a filter
LastQos(f) ==
    sc_client.handlers[CHOOSE i \in 1..Len(sc_client.handlers) :
        /\ sc_client.handlers[i].topic = f
        /\ \A j \in (i + 1)..Len(sc_client.handlers) : sc_client.handlers[j].topic # f].q

\* C21 as claimed: after any sequence of add_sub, clear and reconnect
\* events the filters subscribed at the broker are exactly the filters of
\* the registered handlers, and after clear() no handler is dispatched.
C21_AsClaimed ==
    /\ DOMAIN sc_broker = RegisteredFilters
    /\ sc_last.op = "submit" /\ sc_last.cleared => Len(sc_last.submitted) = 0

\* C21: whenever the session is established (_on_connect has run since the
\* connection was last made), the filters subscribed at the broker are
\* exactly the filters of the registered handlers, each with the qos last
\* registered for it, so every (re)connect subscribes again to all of them
\* and to none that clear() removed; without a session the broker holds no
\* subscription.  Every handler a message is submitted to was registered
\* when the message was received, and a message received while the handler
\* list is empty is dispatched to no handler.
C21_Resubscribe ==
    /\ sc_connected =>
          /\ DOMAIN sc_broker = RegisteredFilters
          /\ \A f \in DOMAIN sc_broker : sc_broker[f] = LastQos(f)
    /\ ~sc_connected => sc_broker = NoSubscriptions
    /\ sc_last.op = "submit" =>
          /\ \A j \in 1..Len(sc_last.submitted) :
                \E i \in 1..Len(sc_last.handlers) :
                    sc_last.handlers[i].handler = sc_last.submitted[j].handler
          /\ Len(sc_last.handlers) = 0 => Len(sc_last.submitted) = 0

\* after a lost connection the client has reconnected with two handlers
\* registered and both filters are subscribed again
C21_Witness ==
    /\ sc_connected
    /\ sc_last.op = "_on_connect"
    /\ sc_last.after = "connection_lost"
    /\ Len(sc_client.handlers) = 2
    /\ DOMAIN sc_broker = {a_plus, a_b}
    /\ sc_broker[a_plus] = 0
    /\ sc_broker[a_b] = 1

\* clear() ran between the collection of the matches and their submission:
\* a handler was dispatched after clear()
C21_DispatchedAfterClear ==
    /\ sc_last.op = "submit"
    /\ sc_last.cleared
    /\ Len(sc_last.registered) = 0
    /\ Len(sc_last.submitted) > 0

----------------------------------------------------------------------------
(* build_subs claims                                                       *)

\* the registered handlers of the hub, over all its clients
Registered ==
    UNION {{[key |-> key, entry |-> hub_clients[key].handlers[i]] :
               i \in 1..Len(hub_clients[key].handlers)} : key \in DOMAIN hub_clients}

\* the subscriptions a route stands for: one per device rule, bound to the
\* rule's pattern or wildcard for '*', or one wildcard without rules
DerivedFrom(r) ==
    IF "device_ids" \notin DOMAIN r \/ Len(r.device_ids.v) = 0
    THEN <<[topic |-> r.topic.v, dev |-> None, rule |-> None]>>
    ELSE [j \in 1..Len(r.device_ids.v) |->
             [topic |-> r.topic.v,
              dev |-> IF r.device_ids.v[j].v.pattern.v = <<"*">> THEN None
                      ELSE r.device_ids.v[j].v.pattern,
              rule |-> r.device_ids.v[j]]]

\* the subscriptions of the routes from the i-th on, in order, where
\* Kept(i) is the number of subscriptions of the i-th route that stay
RECURSIVE DerivedFromRoutes(_, _, _)
DerivedFromRoutes(routes, kept, i) ==
    IF i > Len(routes) THEN <<>>
    ELSE SubSeq(DerivedFrom(routes[i]), 1, kept[i]) \o DerivedFromRoutes(routes, kept, i + 1)

\* the position of a registered handler among the registered handlers, in
\* the order of the add_sub calls of the build
Rank(h) ==
    Cardinality({g \in Registered : g.entry.handler.id[2] <= h.entry.handler.id[2]})

\* after the build observed in hub_last the registered handlers are those
\* of the list, installed by this build and in this order
RegisteredAre(derived) ==
    /\ Cardinality(Registered) = Len(derived)
    /\ \A h \in Registered :
          /\ h.entry.handler.id[1] = hub_calls
          /\ Rank(h) \in 1..Len(derived)
          /\ h.entry.topic = derived[Rank(h)].topic
          /\ h.entry.dev = derived[Rank(h)].dev
          /\ h.entry.handler.rule = derived[Rank(h)].rule

LastRoutes == IF "routes" \in DOMAIN hub_last.cfg THEN hub_last.cfg.routes ELSE <<>>

\* C22 as claimed: after build_subs(cfg) the hub's registered
\* subscriptions are exactly those derived from cfg, one per device rule
\* (or one wildcard) of each route that was installed, none of a route
\* that was skipped or whose setup failed, and none of the previous
\* configuration.
C22_AsClaimed ==
    hub_last.op = "build_subs" =>
        RegisteredAre(DerivedFromRoutes(LastRoutes,
            [i \in 1..Len(LastRoutes) |->
                IF hub_last.log[i] = "" THEN Len(DerivedFrom(LastRoutes[i])) ELSE 0], 1))

\* what build_subs leaves registered: all subscriptions of a route that
\* ended without exception, none of a route that was skipped or failed on
\* the CA file, and the first subscription alone of a route whose add_sub
\* failed to connect
C22_Installed ==
    hub_last.op = "build_subs" =>
        /\ Len(hub_last.log) = Len(LastRoutes)
        /\ RegisteredAre(DerivedFromRoutes(LastRoutes,
              [i \in 1..Len(LastRoutes) |->
                  CASE hub_last.log[i] = "" -> Len(DerivedFrom(LastRoutes[i]))
                    [] hub_last.log[i] = "ConnectError" -> 1
                    [] OTHER -> 0], 1))

\* the second configuration skipped three routes and installed the
\* fourth; nothing of the first configuration is left
C22_SkippedAndReplaced ==
    /\ hub_last.op = "build_subs"
    /\ hub_calls = 2
    /\ hub_last.log = <<"no mqtt_server", "unknown mqtt_server", "no broker", "">>
    /\ Cardinality(Registered) = 1

\* the broker refused the connection: the route with two rules failed and
\* its first rule is registered nevertheless
C22_HalfInstalled ==
    /\ hub_last.op = "build_subs"
    /\ LastRoutes = <<RtRules, RtPort>>
    /\ hub_last.log = <<"ConnectError", "ConnectError">>
    /\ Cardinality(Registered) = 2
    /\ \E h \in Registered : h.entry.handler.rule = Rule103
    /\ \A h \in Registered : h.entry.handler.rule # RuleAny

----------------------------------------------------------------------------
(* ConfigLoader claims                                                     *)

C23_Isolated ==
    /\ cl_last.op = "_watch"
    /\ Len(cl_last.calls) = 2
    /\ cl_last.calls[1].raised
    /\ ~cl_last.calls[2].raised
    /\ cl_last.file.text = ""
    /\ cl_last.calls[2].arg = DictV([k \in {} |-> None])

----------------------------------------------------------------------------
(* Worker claims                                                           *)

AllIdle == \A w \in Workers : wk_pc[w] = "idle"

\* C24 as claimed: when worker threads route samples of one key
\* concurrently, the mutations of the key's derivation state exclude each
\* other, no baseline is lost and n samples yield exactly n - 1
\* consecutive-diff rows.
C24_AsClaimed ==
    (AllIdle /\ wk_taken > 0) => Len(wk_rows) = wk_taken - 1

\* as long as no two workers were inside _calculate_differences together,
\* n samples yield n - 1 rows, each the difference to the sample before
C24_Serial ==
    (AllIdle /\ wk_taken > 0 /\ ~wk_overlap) =>
        /\ Len(wk_rows) = wk_taken - 1
        /\ \A i \in 1..Len(wk_rows) : wk_rows[i].P0 = ScenP0[i + 1] - ScenP0[i]

\* two workers both found no baseline: two samples, no row
C24_BaselineTwice ==
    /\ AllIdle
    /\ wk_taken = 2
    /\ wk_rows = <<>>

\* two workers read the same cached value: both rows are differences to
\* the baseline and the difference between the two samples is in no row
C24_SameBaseline ==
    /\ AllIdle
    /\ wk_taken = 3
    /\ Len(wk_rows) = 2
    /\ \A i \in 1..2 : wk_rows[i].P0 = wk_rows[i].of - ScenP0[1]

----------------------------------------------------------------------------
(* The tables route writes to                                              *)

\* a rule whose interval_difference gives the companion table no suffix
RuleNoSuffix ==
    [pattern |-> <<"*">>,
     interval_difference |-> [enabled |-> TRUE, table_suffix |-> <<>>]]

StreamRules ==
    { << [pattern |-> <<"*">>, interval_difference |-> [enabled |-> TRUE]] >>,
      << RuleNoSuffix >> }

\* three samples of device 103, one per five-minute interval
StreamPayloads ==
    { FlatTs(T120030, <<"1", "0">>), FlatTs(T120615, <<"1", "5">>),
      FlatTs(T121105, <<"2", "0">>) }

StreamsNext ==
    /\ r_calls < MaxRoutes
    /\ \E payload \in StreamPayloads, rule \in StreamRules,
          db_ok \in [DbStages -> BOOLEAN] :
           Route(Gree1, payload, rule, SomeOrder(DOMAIN db_schema), db_ok)

SpecStreams ==
    /\ InitRouter
    /\ [][/\ StreamsNext
          /\ UNCHANGED <<now, cfg_frequency_minutes, iv_calls, iv_last, iv_obs, iv_scen>>
          /\ UNCHANGED <<matchVars, dm_lock, dm_pc, dm_args, dm_existing, dm_calls, dm_ok>>
          /\ UNCHANGED <<tm_calls, tm_last, tm_prev, fnVars, hubVars, scVars, loaderVars, workerVars, ddlVars, modeVars, poolVars, reloadVars>>]_vars

underscore_diff == <<"_", "d", "i", "f", "f">>

C25_Companions ==
    r_last.reached =>
        \A i \in DOMAIN r_last.log :
            \/ /\ r_last.log[i].table = r_last.table \o underscore_diff
               /\ <<r_last.log[i].row>> = r_last.diff_row
            \/ /\ r_last.log[i].table \in {r_last.table \o underscore_interval_diff,
                                            r_last.table}
               /\ <<r_last.log[i].row>> = r_last.interval_diff_row

\* with table_suffix '' the interval row was stored in the base table
C25_IntervalRowInBase ==
    /\ r_last.reached /\ ~r_last.raised
    /\ Len(r_last.interval_diff_row) = 1
    /\ \E i \in DOMAIN r_last.log :
           /\ r_last.log[i].table = r_last.table
           /\ r_last.log[i].ok
           /\ r_last.log[i].row = r_last.interval_diff_row[1]
    /\ r_last.table \in DOMAIN db_rows /\ db_rows[r_last.table] > 0

----------------------------------------------------------------------------
(* ConfigMigrator claims                                                   *)

Migrated == fn_call.fn = "migrate_config"
Resolved == fn_call.fn = "get_or_create_table_name"

\* what migrate_device_config is to return for a rule
MigratedRule(rule) ==
    IF "table_override" \notin DOMAIN rule THEN rule
    ELSE ("table_config" :>
              (IF rule["table_override"] = <<>>
               THEN [auto_create |-> TRUE, version_on_conflict |-> TRUE]
               ELSE [auto_create |-> TRUE, version_on_conflict |-> TRUE,
                     name |-> rule["table_override"][1]]))
         @@ [k \in DOMAIN rule \ {"table_override"} |-> rule[k]]

MigratedRoute(rt) ==
    [k \in DOMAIN rt |->
        IF k = "device_ids" THEN [j \in DOMAIN rt[k] |-> MigratedRule(rt[k][j])] ELSE rt[k]]

\* migrate_config replaces table_override by table_config in every rule,
\* with name exactly for an override that is not null, keeps every other
\* key of rules, routes and configuration, leaves its argument as it was
\* and leaves nothing to migrate
C26_Migration ==
    Migrated =>
        /\ fn_call.ret.migrated =
               [k \in DOMAIN fn_call.args[1] |->
                   IF k = "routes"
                   THEN [i \in DOMAIN fn_call.args[1][k] |->
                            MigratedRoute(fn_call.args[1][k][i])]
                   ELSE fn_call.args[1][k]]
        /\ fn_call.ret.input = fn_call.args[1]
        /\ fn_call.ret.count = 0

\* C26: migrate_config replaces every rule's table_override by table_config
\* = {auto_create: true, version_on_conflict: true} plus name = the old
\* table_override exactly when that was not null, keeps every other key,
\* leaves rules without table_override unchanged, does not mutate its input
\* and is idempotent; TableManager resolves the same table name for a
\* legacy rule and for its migrated form.
C26_AsClaimed ==
    /\ C26_Migration
    /\ Resolved => fn_call.ret.legacy = fn_call.ret.migrated

\* the names agree for every override but the empty string
C26_SameNameUnlessEmpty ==
    (Resolved /\ fn_call.args[1]["table_override"] # << <<>> >>) =>
        fn_call.ret.legacy = fn_call.ret.migrated

\* a configuration with a named and a null override was migrated
C26_MigratedBoth ==
    /\ Migrated
    /\ "routes" \in DOMAIN fn_call.args[1]
    /\ "device_ids" \in DOMAIN fn_call.args[1]["routes"][1]
    /\ fn_call.args[1]["routes"][1]["device_ids"] = <<RuleNamed, RuleNull>>
    /\ fn_call.ret.migrated["routes"][1]["device_ids"][1]["table_config"]["name"] = gree1_4
    /\ "name" \notin DOMAIN fn_call.ret.migrated["routes"][1]["device_ids"][2]["table_config"]
    /\ count_migrations(fn_call.args[1]) = 2

\* table_override '' names the table '' before the migration and a
\* generated table after it
C26_EmptyOverride ==
    /\ Resolved
    /\ fn_call.args[1] = RuleEmptyName
    /\ fn_call.ret.legacy = <<>>
    /\ fn_call.ret.migrated # <<>>

----------------------------------------------------------------------------
(* Derivation state and the insert of the derived row                      *)

\* the call that just returned stored the row in the table
Persisted(last, row, table) ==
    \E i \in DOMAIN last.log :
        last.log[i].ok /\ last.log[i].row = row /\ last.log[i].table = table

\* the consecutive row the call derived reached no table
ConsecutiveRowLost(last) ==
    /\ last.reached /\ Len(last.diff_row) = 1
    /\ ~Persisted(last, last.diff_row[1], last.table \o underscore_diff)

\* the interval row the call derived reached no table
IntervalRowLost(last) ==
    /\ last.reached /\ Len(last.interval_diff_row) = 1
    /\ \A i \in DOMAIN last.log :
           ~(last.log[i].ok /\ last.log[i].row = last.interval_diff_row[1])

\* C27: the derivation state of a key advances atomically with the insert
\* of the row derived from it: a route call whose derived row was not
\* persisted (ensuring the companion table or the insert failed) leaves the
\* consecutive baseline and the interval state as they were; a key has at
\* most one ConsecutiveState and one IntervalState.
C27_AsClaimed ==
    [][/\ ConsecutiveRowLost(r_last') => last_readings' = last_readings
       /\ IntervalRowLost(r_last') => interval_data' = interval_data]_vars

\* a route call that raised before deriving anything leaves both states
\* as they were
C27_NothingDerived ==
    [][(r_last'.called /\ ~r_last'.reached) =>
          /\ last_readings' = last_readings
          /\ interval_data' = interval_data]_vars

\* the insert of a derived consecutive row failed and the baseline of the
\* key is the sample of that row all the same
C27_AdvancedPastLostRow ==
    /\ r_last.called /\ r_last.raised
    /\ ConsecutiveRowLost(r_last)
    /\ db_rows = <<>>
    /\ r_last.payload = FlatTs(T120615, <<"1", "5">>)
    /\ \E key \in DOMAIN last_readings : last_readings[key].data["P0"] = 15

----------------------------------------------------------------------------
(* DDL across worker threads                                               *)

Creates == {i \in DOMAIN dd_ddl : dd_ddl[i].op = "CREATE TABLE"}
Alters == {i \in DOMAIN dd_ddl : dd_ddl[i].op = "ALTER TABLE ADD COLUMN"}

\* two threads issued ALTER TABLE ADD COLUMN for one column
SameColumnTwice ==
    \E i \in Alters, j \in Alters :
        /\ i < j
        /\ dd_ddl[i].thread # dd_ddl[j].thread
        /\ dd_ddl[i].columns \cap dd_ddl[j].columns # {}

\* C28: table resolution and DDL are mutually exclusive across worker
\* threads: two concurrent route calls that need the same missing table or
\* the same missing column never both issue the CREATE TABLE or the ALTER
\* TABLE ADD COLUMN for it, and neither call fails because the other
\* already created it.
C28_AsClaimed ==
    /\ Cardinality(Creates) <= 1
    /\ ~SameColumnTwice
    /\ dd_raised = {}

\* DB._lock makes CREATE TABLE exclusive: the table is created at most
\* once and no statement fails as long as no two ALTERs name one column
C28_OneCreate ==
    /\ Cardinality(Creates) <= 1
    /\ \A i \in Creates : dd_ddl[i].ok
    /\ dd_raised # {} => SameColumnTwice

\* both threads found column P1 missing and both issued the ALTER for it:
\* the second statement failed and its call raised
C28_BothAltered ==
    /\ \A t \in Workers : dd_pc[t] = "idle"
    /\ SameColumnTwice
    /\ \E j \in Alters : ~dd_ddl[j].ok /\ dd_ddl[j].columns = {"P1"}
                         /\ dd_ddl[j].thread \in dd_raised

\* two threads needed the missing table and one CREATE TABLE was issued
C28_CreatedOnce ==
    /\ Cardinality(Creates) = 1
    /\ \A t \in Workers : dd_pc[t] = "ensure_columns"
    /\ dd_seen = [t \in Workers |-> {}]

----------------------------------------------------------------------------
(* Samples inside one interval                                             *)

IvKey(row) == key_of(Gree1, row.DeviceID.v)

\* the sample falls in the interval the key is in
SameIntervalSample(row, clock) ==
    /\ IvKey(row) \in DOMAIN interval_data
    /\ interval_data[IvKey(row)].current_interval =
           calculate_interval_boundary(extract_timestamp(row, clock), cfg_frequency_minutes)

\* the sample has a key with interval state and falls in another interval
NextIntervalSample(row, clock) ==
    /\ IvKey(row) \in DOMAIN interval_data
    /\ interval_data[IvKey(row)].current_interval #
           calculate_interval_boundary(extract_timestamp(row, clock), cfg_frequency_minutes)

\* process_reading emitted nothing, stored the sample as current_reading
\* and last_timestamp and left the rest of the key's state alone
Overwritten(row, clock) ==
    /\ iv_last'.ret = <<>>
    /\ interval_data'[IvKey(row)] =
           [interval_data[IvKey(row)] EXCEPT
               !.current_reading = extract_numeric_fields(row),
               !.last_timestamp = extract_timestamp(row, clock)]

\* process_reading promoted the reading and the timestamp it held
Promoted(row) ==
    /\ interval_data'[IvKey(row)].previous_interval_reading =
           <<interval_data[IvKey(row)].current_reading>>
    /\ interval_data'[IvKey(row)].previous_timestamp =
           <<interval_data[IvKey(row)].last_timestamp>>

HasNumeric(row) == DOMAIN extract_numeric_fields(row) # {}

\* C29 as claimed: while successive samples of a key fall in the same
\* interval as current_interval, each one overwrites current_reading and
\* last_timestamp and emits nothing, and previous_interval_reading,
\* previous_timestamp and current_interval stay unchanged; the reading
\* promoted at the next transition is that of the last sample of the
\* interval.
C29_AsClaimed ==
    [][\A row \in IvRows, clock \in Clocks :
          ProcessReading(Gree1, row.DeviceID.v, row, clock) =>
              /\ SameIntervalSample(row, clock) => Overwritten(row, clock)
              /\ NextIntervalSample(row, clock) => Promoted(row)]_vars

\* C29 for the samples process_reading accepts: a sample with at least one
\* numeric field that falls in the same interval as current_interval
\* overwrites current_reading and last_timestamp, emits nothing and leaves
\* previous_interval_reading, previous_timestamp and current_interval
\* unchanged; such a sample of another interval promotes the reading and
\* the timestamp stored last; a sample without numeric fields changes
\* nothing.
C29_LastSampleWins ==
    [][\A row \in IvRows, clock \in Clocks :
          ProcessReading(Gree1, row.DeviceID.v, row, clock) =>
              /\ (HasNumeric(row) /\ SameIntervalSample(row, clock)) =>
                     Overwritten(row, clock)
              /\ (HasNumeric(row) /\ NextIntervalSample(row, clock)) => Promoted(row)
              /\ ~HasNumeric(row) => interval_data' = interval_data /\ iv_last'.ret = <<>>]_vars

\* the samples 100 and 110 fell in one interval and the sample 150 opened
\* the next: the reading promoted to previous is 110, that of the last
\* sample of the interval
C29_Witness ==
    /\ iv_scen.k = 3
    /\ key_of(Gree1, Dev103) \in DOMAIN interval_data
    /\ interval_data[key_of(Gree1, Dev103)].previous_interval_reading = <<[P0 |-> 110]>>
    /\ interval_data[key_of(Gree1, Dev103)].current_reading = [P0 |-> 150]

\* a sample without numeric fields fell in the current interval and was
\* not stored
C29_IgnoredSample ==
    /\ iv_last.called /\ ~iv_last.accepted
    /\ key_of(Gree1, Dev103) \in DOMAIN interval_data
    /\ interval_data[key_of(Gree1, Dev103)].current_interval = iv_last.samplekey
    /\ interval_data[key_of(Gree1, Dev103)].current_reading = [P0 |-> 200]

----------------------------------------------------------------------------
(* The two substreams of one routed sample                                 *)

\* the call derived from a sample of a known device
Derived(last) == last.called /\ last.reached /\ Len(last.device_id) = 1

\* the consecutive substream took the sample of the call into its state
ConsecutiveObserved ==
    last_readings' =
        calculate_differences(last_readings, r_last'.topic, r_last'.device_id[1],
                              r_last'.row[1]).last

\* the interval substream took the sample of the call into its state
IntervalObserved ==
    \E rule \in StreamRules :
        interval_data' =
            process_interval_differences(interval_data, r_config.route_by_topic,
                                         r_last'.topic, r_last'.device_id[1],
                                         r_last'.row[1], rule, now).data

\* C30: the two substreams are independent: both can emit for one routed
\* row, the outcome and the state of either do not depend on the state of
\* the other or on whether its row was emitted or inserted, and every
\* routed sample with a known device_id is observed by both substreams.
C30_AsClaimed ==
    [][Derived(r_last') => ConsecutiveObserved /\ IntervalObserved]_vars

\* the consecutive substream observes every such sample; the interval
\* substream observes it unless storing the consecutive row raised, and
\* then its state is left as it was
C30_IntervalAfterConsecutive ==
    [][Derived(r_last') =>
          /\ ConsecutiveObserved
          /\ IF ConsecutiveRowLost(r_last')
             THEN interval_data' = interval_data /\ r_last'.interval_diff_row = <<>>
             ELSE IntervalObserved]_vars

\* one routed sample for which both substreams emitted and stored a row
C30_BothEmitted ==
    /\ Derived(r_last) /\ ~r_last.raised
    /\ Len(r_last.diff_row) = 1 /\ Len(r_last.interval_diff_row) = 1
    /\ Len(r_last.log) = 2 /\ r_last.log[1].ok /\ r_last.log[2].ok

\* the consecutive row of the second sample could not be stored: the
\* consecutive baseline is that sample, the interval state still the first
C30_SampleUnseen ==
    /\ Derived(r_last) /\ r_last.raised /\ r_calls = 2
    /\ ConsecutiveRowLost(r_last)
    /\ last_readings[key_of(Gree1, Dev103)].data =
           extract_numeric_fields(r_last.row[1])
    /\ interval_data[key_of(Gree1, Dev103)].current_reading =
           extract_numeric_fields(r_last.prev_row[1])
    /\ r_last.prev_row # r_last.row

----------------------------------------------------------------------------
(* Pattern selection and the value route returns                           *)

\* C31: when no device_id can be extracted from the payload, route inserts
\* no row, creates or changes no consecutive or interval derivation state
\* and makes no DeviceRegistry registration.
C31_NoDeviceNoEffect ==
    [][(r_calls' = r_calls + 1 /\ r_last'.payload \in NoDevicePayloads) =>
          /\ r_last'.log = <<>>
          /\ r_last'.device_id = <<>>
          /\ db_rows' = db_rows
          /\ last_readings' = last_readings
          /\ interval_data' = interval_data
          /\ mapper_table' = mapper_table]_vars

\* a payload without a device id was routed, under a rule with interval
\* differences and with a device registry, after a sample of device 103
\* had left its baseline
C31_Witness ==
    /\ r_calls = 2
    /\ r_last.payload = P0Only(15) /\ ~r_last.raised /\ Len(r_last.ret) = 1
    /\ r_last.table \in DOMAIN db_schema
    /\ r_config.has_mapper
    /\ Len(md_rule) = 1 /\ "interval_difference" \in DOMAIN md_rule[1]
    /\ DOMAIN last_readings = {key_of(Gree1, Dev103)}

\* the pattern whose table template and columns route worked with: the
\* pattern the rule names when it is configured, else the matched one, and
\* none in auto mode (router.py:260-280)
applied_pattern(patterns, payload, rule) ==
    LET matched_pattern == match(patterns, payload)
        override == IF Len(rule) = 1 /\ "pattern_name" \in DOMAIN rule[1]
                       /\ rule[1]["pattern_name"] # ""
                    THEN <<rule[1]["pattern_name"]>> ELSE <<>>
        pattern == IF Len(override) = 0 THEN matched_pattern
                   ELSE IF override[1] = "auto" THEN <<>>
                   ELSE pattern_by_name(patterns, override[1], matched_pattern)
    IN  IF Len(pattern) = 1 /\ "table" \in DOMAIN pattern[1] /\ Len(pattern[1].table) > 0
        THEN pattern ELSE <<>>

Returned == r_last.called /\ ~r_last.raised /\ Len(r_last.ret) = 1

NoRowEmitted == Len(r_last.diff_row) = 0 /\ Len(r_last.interval_diff_row) = 0

AppliedName ==
    LET pattern == applied_pattern(m_patterns, r_last.payload, md_rule)
    IN  IF Len(pattern) = 1 THEN pattern[1].name ELSE "auto"

\* C32: the value route returns carries baseline = true exactly when neither
\* a consecutive-diff row nor an interval-diff row was emitted for the
\* message, and its pattern name is the name of the pattern that was applied.
C32_AsClaimed ==
    Returned =>
        /\ r_last.ret[1].baseline <=> NoRowEmitted
        /\ r_last.ret[1].pattern = AppliedName

\* what the code keeps: for a message with a device id the flag is set
\* exactly when no row was emitted, without one the flag is never set; the
\* name is the rule's pattern_name when it has one, else the matched name
C32_FlagNeedsDevice ==
    Returned =>
        r_last.ret[1].baseline <=> (NoRowEmitted /\ Len(r_last.device_id) = 1)

C32_NameUnlessOverridden ==
    (Returned /\ (Len(md_rule) = 0 \/ "pattern_name" \notin DOMAIN md_rule[1])) =>
        r_last.ret[1].pattern = AppliedName

\* a message without a device id emits no row and returns no baseline flag
C32_NoFlagNoRow ==
    /\ Returned
    /\ r_last.payload \in NoDevicePayloads
    /\ NoRowEmitted
    /\ ~r_last.ret[1].baseline

\* the rule names a pattern that is not configured: the matched pattern's
\* table is used and the rule's name is returned
C32_NameOfNoPattern ==
    /\ Returned
    /\ Len(md_rule) = 1 /\ "pattern_name" \in DOMAIN md_rule[1]
    /\ md_rule[1]["pattern_name"] = "legacy"
    /\ r_last.ret[1].pattern = "legacy"
    /\ AppliedName = "flat_series"

\* the rule of the last call carries a pattern_name
Overridden(rule) ==
    Len(rule) = 1 /\ "pattern_name" \in DOMAIN rule[1] /\ rule[1]["pattern_name"] # ""

\* the configured patterns of that name
Configured(name) ==
    {i \in 1..Len(m_patterns) : "name" \in DOMAIN m_patterns[i] /\ m_patterns[i].name = name}

\* the table the TableManager resolves for a message in auto mode, from
\* the database and cache as they are before the call
AutoTable(topic, payload) ==
    get_or_create_table_name(db_schema, table_cache, SomeOrder(DOMAIN db_schema),
                             [table_override |-> <<>>, auto_create |-> TRUE,
                              version_on_conflict |-> TRUE],
                             topic, <<"*">>, payload, TRUE).ret

\* C33: under a rule whose pattern_name is 'auto' route works in auto mode
\* (table from the TableManager, columns derived from the payload, pattern
\* 'auto') even if a configured pattern matches; under a rule that names a
\* configured pattern, that pattern's table and name are used, not the
\* matched one's.
C33_Override ==
    [][(r_calls' = r_calls + 1 /\ ~r_last'.raised /\ Len(r_last'.ret) = 1 /\ Overridden(md_rule')) =>
          /\ md_rule'[1]["pattern_name"] = "auto" =>
                /\ r_last'.ret[1].pattern = "auto"
                /\ r_last'.ret[1].columns = derive_columns_auto(r_last'.topic, r_last'.payload)
                /\ r_last'.ret[1].table = AutoTable(r_last'.topic, r_last'.payload)
          /\ \A i \in Configured(md_rule'[1]["pattern_name"]) :
                /\ r_last'.ret[1].pattern = m_patterns[i].name
                /\ r_last'.ret[1].table = format_table(m_patterns[i].table, r_last'.topic)]_vars

\* a payload that flat_series matches, routed under a rule that names
\* p0_series: the table of p0_series is returned
C33_Witness ==
    /\ Returned
    /\ Overridden(md_rule) /\ md_rule[1]["pattern_name"] = "p0_series"
    /\ Len(m_patterns) = 2
    /\ match(m_patterns, r_last.payload) = <<flat_series>>
    /\ r_last.ret[1].table = format_table(p0_series.table, Gree1)
    /\ r_last.ret[1].table # format_table(flat_series.table, Gree1)

\* a payload that flat_series matches, routed in auto mode by the rule
C33_ForcedAuto ==
    /\ Returned
    /\ Overridden(md_rule) /\ md_rule[1]["pattern_name"] = "auto"
    /\ match(m_patterns, r_last.payload) = <<flat_series>>
    /\ r_last.ret[1].pattern = "auto"
    /\ r_last.ret[1].table # format_table(flat_series.table, Gree1)

\* the handlers a message is for: those whose filter matches the topic and
\* whose device is the message's, the ones for every device only when no
\* other matched
MatchingHandlers(topic, data) ==
    LET matching == {i \in 1..Len(PoolHandlers) :
                        /\ topic_filter_matches(PoolHandlers[i].topic, topic)
                        /\ \/ PoolHandlers[i].dev = None
                           \/ PoolHandlers[i].dev = StrV(PyStr(data.v["DeviceID"]))}
        specific == {i \in matching : PoolHandlers[i].dev # None}
    IN  {PoolHandlers[i].handler : i \in IF specific # {} THEN specific ELSE matching}

Queued(pool) == {[handler |-> pool.queue[i].handler, n |-> pool.queue[i].n] : i \in 1..Len(pool.queue)}

\* C34: an exception raised by a handler is contained.  The step in which a
\* handler raises leaves the network loop running, the executor accepting
\* work and its queue as they were, and frees the worker; every message
\* delivered after a handler raised is submitted to each of its matching
\* handlers.
C34_Contained ==
    [][\A g \in Generations :
          /\ (\E task \in pl_pool[g].running : PlFinish(g, task, TRUE)) =>
                /\ pl_pool'[g].loop = pl_pool[g].loop
                /\ pl_pool'[g].shutdown = pl_pool[g].shutdown
                /\ pl_pool'[g].queue = pl_pool[g].queue
                /\ Cardinality(pl_pool'[g].running) < MaxWorkers
          /\ (pl_msgs' = pl_msgs + 1 /\ pl_last'.g = g /\ Raised(pl_pool[g]) # {}) =>
                Queued(pl_pool'[g]) =
                    Queued(pl_pool[g])
                    \cup {[handler |-> h, n |-> pl_msgs'] :
                            h \in MatchingHandlers(pl_last'.topic, pl_last'.data)}]_vars

\* a handler raised for the first message; the second message, delivered
\* afterwards, had two matching handlers and both ran, one in the worker
\* that had raised
C34_Witness ==
    \E g \in Generations :
        /\ \E d \in pl_pool[g].done : d.raised /\ d.task.n = 1
        /\ Cardinality({d \in pl_pool[g].done : d.task.n = 2 /\ d.task.after > 0 /\ ~d.raised}) = 2

\* the work items of generation g that a worker has taken
Started(g) == pl_pool[g].running \cup {d.task : d \in pl_pool[g].done}

\* C35: stop_all terminates; when it has returned every client's loop is
\* stopped, every work item submitted before has finished, and no handler
\* is started afterwards.
C35_AsClaimed ==
    pl_stop = "returned" =>
        \A g \in Generations :
            /\ ~pl_pool[g].loop
            /\ \A task \in Started(g) : ~task.late

\* what stop_all does for the clients it finds: at its return their loops
\* are stopped, their executors closed and drained, and the map is empty
C35_StoppedAndDrained ==
    [][PlStopReturn =>
          /\ pl_client' = 0
          /\ pl_client # 0 =>
                /\ ~pl_pool'[pl_client].loop /\ pl_pool'[pl_client].shutdown
                /\ drained(pl_pool'[pl_client])]_vars

\* with handlers that return or raise, stop_all returns
C35_Terminates == (pl_stop = "draining") ~> (pl_stop = "returned")

\* the watcher's add_sub found the map empty after stop_all returned and
\* created a client, whose loop runs and whose executor started a handler
C35_StartedAfterReturn ==
    /\ pl_stop = "returned"
    /\ pl_client = 2 /\ pl_pool[2].loop
    /\ drained(pl_pool[1]) /\ pl_pool[1].done # {}
    /\ \E task \in Started(2) : task.late

\* one round of the loop of apply_transformations
TfStep(data, topic, transformation) ==
    IF check_condition(data, topic, ConfigGet(transformation, "condition", <<>>))
    THEN apply_transformation(data, transformation)
    ELSE data

\* the transformation's condition is met and it cannot be carried out: its
\* action type is none of the four, or it is a decimal combination whose
\* integer or fractional field holds no integer
TfFails(data, topic, transformation) ==
    LET action == ConfigGet(transformation, "action", <<>>)
        type == ConfigGet(action, "type", "")
    IN  /\ check_condition(data, topic, ConfigGet(transformation, "condition", <<>>))
        /\ \/ type \notin {"combine_decimal", "scale_value", "rename_field", "remove_field"}
           \/ /\ type = "combine_decimal"
              /\ {"integer_field", "fractional_field"} \subseteq DOMAIN action
              /\ {action["integer_field"], action["fractional_field"]} \subseteq DOMAIN data
              /\ \E f \in {action["integer_field"], action["fractional_field"]} :
                    data[f].ty = "str" /\ \E i \in 1..Len(data[f].v) : ~IsDigit(data[f].v[i])

TfCall == fn_call.fn = "apply_transformations"

\* C36: a transformation that fails (a non-numeric operand of
\* combine_decimal) or has an unknown action type leaves the data as it was
\* before it, and the remaining transformations are applied in order: the
\* result of a list of two is the second round applied to the result of
\* the first, where a failing round changes nothing.
C36_FailureSkipped ==
    (TfCall /\ Len(fn_call.args[3]) = 2) =>
        LET data == fn_call.args[1]
            topic == fn_call.args[2]
            first == TfStep(data, topic, fn_call.args[3][1])
        IN  /\ TfFails(data, topic, fn_call.args[3][1]) => first = data
            /\ TfFails(first, topic, fn_call.args[3][2]) => fn_call.ret = first
            /\ fn_call.ret = TfStep(first, topic, fn_call.args[3][2])

\* an unknown action type first, then a scaling that is applied
C36_Witness ==
    /\ TfCall /\ Len(fn_call.args[3]) = 2
    /\ fn_call.args[3][1].action.type = "round_value"
    /\ fn_call.args[3][2] = scale_if_P1
    /\ "P1" \in DOMAIN fn_call.args[1]
    /\ fn_call.args[1]["P0"] = IntV(100)
    /\ fn_call.ret["P0"] = FloatV(200)

\* a combination whose fractional part is no numeral, then a removal that
\* is applied
C36_BadOperand ==
    /\ TfCall /\ Len(fn_call.args[3]) = 2
    /\ fn_call.args[3][1].action = combine_P0_P1
    /\ TfFails(fn_call.args[1], fn_call.args[2], fn_call.args[3][1])
    /\ fn_call.args[3][2].action.type = "remove_field"
    /\ fn_call.ret = without(fn_call.args[1], "P1")

OnCallersMap == fn_call.fn = "apply_transformations(caller's map)"

\* C37: apply_transformations never mutates the map the caller passed in:
\* after the call the caller's dict has the keys and values it had before,
\* whichever transformations were applied.
C37_CallerUntouched == OnCallersMap => fn_call.after = fn_call.args[1]

\* the dict returned holds what the transformations compute; with an empty
\* list it is the caller's own dict, otherwise another object
C37_SameResult ==
    OnCallersMap =>
        /\ fn_call.ret = apply_transformations(fn_call.args[1], fn_call.args[2], fn_call.args[3])
        /\ fn_call.same_object <=> Len(fn_call.args[3]) = 0

\* two transformations were applied, each to a copy of its own, and the
\* result differs from the caller's dict in P0 and in P1
C37_Witness ==
    /\ OnCallersMap
    /\ Len(fn_call.args[3]) = 2
    /\ fn_call.copies = 3
    /\ "P1" \in DOMAIN fn_call.args[1] /\ "P1" \notin DOMAIN fn_call.ret
    /\ fn_call.ret["P0"] # fn_call.args[1]["P0"]
    /\ fn_call.after = fn_call.args[1]

ColumnsCall == fn_call.fn = "columns"

\* the value that decides the type of a field: the first element of a
\* non-empty list under d, else the value itself
Deciding(payload) ==
    IF is_enveloped(payload) THEN first_or_self(payload.v["d"].v["P0"])
    ELSE IF IsDict(payload) /\ "P0" \in KeysOf(payload) THEN payload.v["P0"]
    ELSE None

\* C38: for every payload the columns of derive_columns_auto, apart from
\* topic, and the data columns of _get_data_columns have the same names and
\* the same types.
C38_AsClaimed ==
    ColumnsCall => without(fn_call.auto, "topic") = fn_call.data

\* where the two agree: an object whose fields are not named as metadata
\* columns and whose deciding values are int, float, str, dict or an empty
\* list (and, under d, a list)
C38_AgreeOnPlainFields ==
    (/\ ColumnsCall
     /\ IsDict(fn_call.args[2])
     /\ \A k \in KeysOf(fn_call.args[2]) : key_lower(k) \notin {"topic", "ingested_at", "id"}
     /\ \/ Deciding(fn_call.args[2]).ty \in {"int", "float", "str", "dict"}
        \/ Deciding(fn_call.args[2]) = ListV(<<>>)
        \/ is_enveloped(fn_call.args[2]) /\ Deciding(fn_call.args[2]).ty = "list")
    => without(fn_call.auto, "topic") = fn_call.data

\* a boolean field: int for derive_columns_auto, boolean for the table
\* manager
C38_BoolIsInt ==
    /\ ColumnsCall
    /\ fn_call.args[2] = DictV([DeviceID |-> StrV(Dev103), P0 |-> BoolV(TRUE)])
    /\ fn_call.auto["P0"] = "int"
    /\ fn_call.data["P0"] = "boolean"

\* a flat list-valued field: json for derive_columns_auto, the type of its
\* first element for the table manager
C38_FlatList ==
    /\ ColumnsCall
    /\ fn_call.args[2] = DictV([DeviceID |-> StrV(Dev103), P0 |-> ListV(<<IntV(1), IntV(2)>>)])
    /\ fn_call.auto["P0"] = "json"
    /\ fn_call.data["P0"] = "int"

\* the last call issued a DDL statement that the database refused
DdlFailed == tm_last.called /\ tm_last.failed /\ Len(tm_last.ddl) > 0

\* the table of the statement that failed
FailedTable == tm_last.ddl[Len(tm_last.ddl)].table

\* C39: when a DDL statement fails inside get_or_create_table_name nothing
\* is raised and the name returned is the name of the table the statement
\* was to create or alter.
C39_AsClaimed == DdlFailed => tm_last.ret = FailedTable

\* what is returned after a failure: the name that was resolved before
\* _ensure_table_exists, which is the failed statement's table unless that
\* was the CREATE TABLE of a new version
C39_ResolvedNameReturned ==
    DdlFailed =>
        /\ tm_last.ret = tm_last.table_name
        /\ tm_last.ret # FailedTable =>
              /\ tm_last.ddl[Len(tm_last.ddl)].op = "CREATE TABLE"
              /\ tm_last.ret \in DOMAIN tm_last.db
              /\ \E version \in 1..MaxEnsures + 2 :
                    FailedTable = versioned_name(tm_last.ret, version)

\* CREATE TABLE of a new table failed and its name is returned
C39_FailedCreate ==
    /\ DdlFailed
    /\ tm_last.ret = FailedTable
    /\ tm_last.ret \notin DOMAIN db_schema
    /\ tm_last.ddl[1].op = "CREATE TABLE"

\* CREATE TABLE of a version failed and the name of the existing table,
\* whose schema conflicts with the message, is returned
C39_FailedVersion ==
    /\ DdlFailed
    /\ tm_last.ret # FailedTable
    /\ tm_last.ret \in DOMAIN db_schema
    /\ FailedTable \notin DOMAIN db_schema

\* the snapshot the file's present text parses to
LatestContent == safe_load(rl_file.text).data

\* C40: no change of the file is lost, even when it is rewritten while load
\* is running: once the file stops changing, the snapshot of get()
\* eventually equals the file's latest content, and stays so, and the
\* subscribers have been called with it.
C40_AsClaimed ==
    <>[](rl_loader.data = LatestContent /\ rl_notified = LatestContent)

\* what the watcher keeps: whenever the file's modification time differs
\* from the recorded one, the watcher reaches its callbacks again
C40_ChangeOfMtimeSeen ==
    (rl_file.mtime # rl_loader.mtime) ~> (rl_pc = "callbacks")

\* a load during which the file was not written publishes its content
C40_QuietLoad ==
    [][(RlRecord /\ rl_local.text = rl_file.text) =>
          rl_loader'.data = LatestContent /\ rl_loader'.mtime = rl_file.mtime]_vars

\* the file was rewritten between read_text and stat: the old text is
\* published under the new modification time, the watcher sleeps and sees
\* no difference, and the file will not change again
C40_LostChange ==
    /\ rl_pc = "sleep"
    /\ rl_writes = MaxFileWrites
    /\ rl_loader.mtime = rl_file.mtime
    /\ rl_loader.data # LatestContent
    /\ rl_notified # LatestContent

====
